---- MODULE Spec2Model ----
(***************************************************************************)
(* Model of the luco-backend SMS platform: the wallet ledger, the         *)
(* scheduled-send engine (routes/schedulesms.py), the immediate-send path *)
(* (routes/sendsms.py) and the developer send (routes/devsms.py).         *)
(*                                                                         *)
(* The database is PostgreSQL at its default isolation level (READ         *)
(* COMMITTED); every handler works on its own SQLAlchemy session           *)
(* (autoflush off, no SELECT .. FOR UPDATE, no version column).  A handler *)
(* therefore reads rows into its session at one moment, computes new       *)
(* attribute values in Python, and writes those values at db.commit().     *)
(* Each handler is modelled by the step that loads and checks (Begin) and  *)
(* the step that commits (Commit); FastAPI runs the handlers of            *)
(* simultaneous requests on a thread pool, so the steps of different       *)
(* sessions interleave.                                                    *)
(***************************************************************************)
EXTENDS Integers, Sequences, FiniteSets, Bags, TLC

(* ------------------------------ bounds --------------------------------- *)
MaxTime == 1
MaxOps == 4

(* --------------------------- program constants ------------------------- *)
SMS_COST == 32
EAT_OFFSET == 3
MAX_TOPUP == 1000000

Users == {"u1", "u2"}
Slots == {"r1", "r2"}
Triggers == {"job", "trigger"}

None == "None"
NoTime == -1
NoId == 0
NoBalance == -1

(* A request's scheduled_time: a wall-clock hour and either no tzinfo      *)
(* ("naive") or an offset from UTC in hours.                               *)
DateTimes == [wall : EAT_OFFSET .. EAT_OFFSET + MaxTime, tz : {"naive"}]
             \cup [wall : {0, MaxTime}, tz : {"utc"}]

(* EAT_TZ.localize(v) for a naive value, then the instant an aware value   *)
(* denotes (aware datetimes compare by instant).                           *)
Localize(v) == IF v.tz = "naive" THEN [wall |-> v.wall, tz |-> "eat"] ELSE v
UtcOffset(v) == IF v.tz = "eat" THEN EAT_OFFSET ELSE 0
Instant(v) == v.wall - UtcOffset(v)

Senders == {None, "LUCO"}
Phones == {"+254700000001", "+254700000002", "+254700000003"}

(* The contact directory (tables contacts, contact_groups and              *)
(* contact_group_members), which the handlers modelled here only read.     *)
Groups == {"g1", "g2", "g3", "g4"}
Contacts == {"c1", "c2", "c3", "c4"}
GroupOwner == [g \in Groups |-> IF g = "g3" THEN "u2" ELSE "u1"]
Members == [g \in Groups |->
               IF g = "g1" THEN {"c1", "c2"}
               ELSE IF g = "g2" THEN {"c2", "c3"}
               ELSE IF g = "g3" THEN {"c4"} ELSE {"c3"}]
IsActive == [c \in Contacts |-> c # "c3"]
PhoneNumber == [c \in Contacts |->
                   IF c = "c2" THEN "+254700000002"
                   ELSE IF c = "c3" THEN "+254700000003" ELSE "+254700000001"]

(* The group_ids lists of the bulk requests.                              *)
GroupInputs == {{"g1"}, {"g1", "g2"}, {"g2", "g3"}, {"g3", "g4"}}

(* Table api_keys: key -> (user_id, is_active).                            *)
ApiKeys == {"Luco_1", "Luco_2"}
KeyUser == [k \in ApiKeys |-> IF k = "Luco_1" THEN "u1" ELSE "u2"]
KeyActive == [k \in ApiKeys |-> k = "Luco_1"]

(* The amounts of the top-up requests: an invalid one and a valid one.     *)
TOPUP == 40
TopupAmounts == {0, TOPUP}

VARIABLES
    now,            \* the clock: datetime.now(EAT_TZ) as an instant
    wallet,         \* users.wallet_balance, committed
    transactions,   \* table transactions, committed: a bag of rows
    scheduled,      \* table scheduled_messages, committed, id = index
    messages,       \* table sms_messages, committed, id -> row
    message_id_seq, \* the sequence behind sms_messages.id
    req,            \* the sessions in flight (requests, scans), per thread
    gateway,        \* history: the scheduled ids the scans called the gateway for
    ops             \* history: number of sessions opened so far

vars == <<now, wallet, transactions, scheduled, messages, message_id_seq,
          req, gateway, ops>>
db == <<wallet, transactions, scheduled, messages, message_id_seq>>

Idle == [op |-> "idle"]

(* Transactions(user_id, amount, transaction_type); ref is a history field *)
(* naming the scheduled message a refund was written for.                  *)
Transaction(u, amount, type, ref) ==
    [user_id |-> u, amount |-> amount, transaction_type |-> type, ref |-> ref]

NewScheduled(u, recipient, body, sender, time, cost) ==
    [user_id |-> u, recipient |-> recipient, message |-> body,
     sender_id |-> sender, scheduled_time |-> time, status |-> "pending",
     cost |-> cost, attempts |-> 0, last_attempt_at |-> NoTime,
     error_message |-> None, sent_message_id |-> NoId,
     processed_at |-> NoTime]

NewMessage(u, recipient, body, sender, status, cost) ==
    [user_id |-> u, recipient |-> recipient, message |-> body,
     sender_id |-> sender, status |-> status, cost |-> cost]

(* The users exist (authclerk created them, wallet_balance defaults to 0)  *)
(* and every table is empty.                                               *)
Init ==
    /\ now = 0
    /\ wallet = [u \in Users |-> 0]
    /\ transactions = EmptyBag
    /\ scheduled = <<>>
    /\ messages = <<>>
    /\ message_id_seq = 0
    /\ req = [r \in Slots |-> Idle]
    /\ gateway = EmptyBag
    /\ ops = 0

(* ------------------------------- clock -------------------------------- *)
Tick ==
    /\ now < MaxTime
    /\ now' = now + 1
    /\ UNCHANGED <<db, req, gateway, ops>>

(* The orders in which a query without ORDER BY may return a set of rows. *)
Orders(S) == {o \in [1 .. Cardinality(S) -> S] :
                 \A i, j \in DOMAIN o : i # j => o[i] # o[j]}

(* A new request is served by the first free worker thread; MaxOps bounds  *)
(* the number of sessions a run opens.                                     *)
Free(r) == ops < MaxOps /\ req[r] = Idle /\ (r = "r2" => req["r1"] # Idle)

(* Opening a session: the session object of the handler on thread r.       *)
Open(r, session) ==
    /\ req' = [req EXCEPT ![r] = session]
    /\ ops' = ops + 1

(* A request the handler refuses: the HTTPException (or the validation     *)
(* error of the request model) is raised before anything is written.       *)
Reject(r, handler, u, error) ==
    Open(r, [op |-> "rejected", handler |-> handler, user |-> u,
             error |-> error])

(* The error response is sent and the session is closed without a commit.  *)
Respond(r) ==
    /\ req[r].op = "rejected"
    /\ req' = [req EXCEPT ![r] = Idle]
    /\ UNCHANGED <<now, db, gateway, ops>>


BagAdd(b, x) == b (+) SetToBag({x})
RECURSIVE BagAddAll(_, _)
BagAddAll(b, xs) == IF xs = <<>> THEN b ELSE BagAddAll(BagAdd(b, Head(xs)), Tail(xs))

(* ------------------- topup_wallet (POST /wallet/topup) ------------------ *)
(* TopupRequest.validate_amount *)
validate_amount(amount) == amount > 0 /\ amount <= MAX_TOPUP

TopupOutcome(amount) == IF validate_amount(amount) THEN "ok" ELSE "ValidationError"

TopupBegin(r, u, amount) ==
    /\ Free(r)
    /\ IF TopupOutcome(amount) = "ok"
       THEN Open(r,
                  [op |-> "topup", user |-> u, amount |-> amount,
                   wallet_balance |-> wallet[u] + amount])
       ELSE Reject(r, "topup_wallet", u,
                   TopupOutcome(amount))
    /\ UNCHANGED <<now, db, gateway>>

TopupCommit(r) ==
    /\ req[r].op = "topup"
    /\ wallet' = [wallet EXCEPT ![req[r].user] = req[r].wallet_balance]
    /\ transactions' = BagAdd(transactions, Transaction(req[r].user, req[r].amount, "topup", NoId))
    /\ req' = [req EXCEPT ![r] = Idle]
    /\ UNCHANGED <<now, scheduled, messages, message_id_seq, gateway, ops>>

(* ----------------------- schedule_sms (POST /) -------------------------- *)
(* Message bodies.  Spaces are the runs of whitespace a body may start and *)
(* end with, Texts the bodies without whitespace at either end; LongBody   *)
(* is one character longer than the limit.                                 *)
MAX_MESSAGE == 160
Filler == "xxxxxxxxxxxxxxxxxxxxxxxxxxxxxxxxxxxxxxxx"
LongBody == Filler \o Filler \o Filler \o Filler \o "x"
Spaces == {"", " "}
Texts == {"", "hi", "yo", LongBody}
BodyInputs == {"", " ", " hi ", LongBody}

(* str.strip(): the body without its leading and trailing whitespace.      *)
Strip(v) ==
    CHOOSE t \in Texts : \E a \in Spaces, b \in Spaces : v = a \o t \o b

(* validate_message of ScheduleSMSRequest and BulkScheduleSMSRequest: an   *)
(* empty or blank body and a body of more than 160 characters raise; the   *)
(* stripped body is returned otherwise.                                    *)
validate_message(v) ==
    IF v = "" \/ Strip(v) = "" THEN "ValueError"
    ELSE IF Len(v) > MAX_MESSAGE THEN "ValueError"
    ELSE Strip(v)

(* What the validator gives for each body a request may carry.             *)
Validated == [v \in BodyInputs |-> validate_message(v)]

(* ScheduleSMSRequest.validate_time: a naive value is localized to EAT,    *)
(* then the value must be strictly after datetime.now(EAT_TZ).             *)
(* The comparison with >= in place of >: a time equal to now passes.       *)
validate_time_inclusive(v) == Instant(Localize(v)) >= now

validate_time(v) == Instant(Localize(v)) > now

(* schedule_sms without its balance check.                                 *)
ScheduleOutcomeUnchecked(u, dt) ==
    IF ~validate_time(dt) THEN "ValidationError" ELSE "ok"

ScheduleOutcome(u, dt) ==
    IF ~validate_time(dt) THEN "ValidationError"
    ELSE IF wallet[u] < SMS_COST THEN "InsufficientFunds"
    ELSE "ok"

ScheduleBegin(r, u, dt, body, sender, phone) ==
    /\ Free(r)
    /\ IF ScheduleOutcome(u, dt) = "ok"
       THEN Open(r,
                  [op |-> "schedule", user |-> u,
                   wallet_balance |-> wallet[u] - SMS_COST,
                   tx |-> Transaction(u, -SMS_COST, "sms_scheduled", NoId),
                   new |-> <<NewScheduled(u, phone, body, sender,
                                Instant(Localize(dt)), SMS_COST)>>])
       ELSE Reject(r, "schedule_sms", u,
                   ScheduleOutcome(u, dt))
    /\ UNCHANGED <<now, db, gateway>>

(* schedule_sms for a request with any body: the request model is          *)
(* validated before the handler runs.                                      *)
ScheduleBodyBegin(r, u, dt, body, sender, phone) ==
    IF Validated[body] = "ValueError"
    THEN /\ Free(r)
         /\ Reject(r, "schedule_sms", u, "ValidationError")
         /\ UNCHANGED <<now, db, gateway>>
    ELSE ScheduleBegin(r, u, dt, Validated[body], sender, phone)

(* A commit per row: the debit and the first row only.                     *)
ScheduleCommitFirstRow(r) ==
    /\ req[r].op = "schedule"
    /\ wallet' = [wallet EXCEPT ![req[r].user] = req[r].wallet_balance]
    /\ transactions' = BagAdd(transactions, req[r].tx)
    /\ scheduled' = Append(scheduled, Head(req[r].new))
    /\ req' = [req EXCEPT ![r] = Idle]
    /\ UNCHANGED <<now, messages, message_id_seq, gateway, ops>>

(* db.commit() of schedule_sms and schedule_bulk_sms: the UPDATE of the user row with the        *)
(* balance computed in the session, the INSERT of the Transactions row and *)
(* of the ScheduledMessages row.                                           *)
ScheduleCommit(r) ==
    /\ req[r].op = "schedule"
    /\ wallet' = [wallet EXCEPT ![req[r].user] = req[r].wallet_balance]
    /\ transactions' = BagAdd(transactions, req[r].tx)
    /\ scheduled' = scheduled \o req[r].new
    /\ req' = [req EXCEPT ![r] = Idle]
    /\ UNCHANGED <<now, messages, message_id_seq, gateway, ops>>

(* -------------------- schedule_bulk_sms (POST /bulk) -------------------- *)
(* The query without the filter on the owner of the group.                 *)
ResolveContactsAnyOwner(u, group_ids) ==
    {c \in Contacts : /\ IsActive[c]
                      /\ \E g \in group_ids : g \in Groups /\ c \in Members[g]}

(* The query of the contacts: joined to the groups, filtered by the ids    *)
(* asked for, the caller's ownership of the group and is_active, DISTINCT. *)
ResolveContacts(u, group_ids) ==
    {c \in Contacts : /\ IsActive[c]
                      /\ \E g \in group_ids :
                            g \in Groups /\ GroupOwner[g] = u /\ c \in Members[g]}

(* The rows of the join of contacts and groups under that filter, one per  *)
(* (group, contact) pair.                                                  *)
JoinRows(u, group_ids) ==
    {p \in Groups \X Contacts :
        /\ p[1] \in group_ids
        /\ GroupOwner[p[1]] = u
        /\ p[2] \in Members[p[1]]
        /\ IsActive[p[2]]}

(* The same query without DISTINCT: one entry per row of the join.         *)
QueryContactsJoined(u, group_ids) ==
    {[k \in DOMAIN o |-> o[k][2]] : o \in Orders(JoinRows(u, group_ids))}

(* .distinct().all(): the lists the query may return.                      *)
QueryContacts(u, group_ids) == Orders(ResolveContacts(u, group_ids))

(* The checks without the test for an empty list of contacts.              *)
BulkOutcomeEmptyAllowed(u, contacts, dt) ==
    IF ~validate_time(dt) THEN "ValidationError"
    ELSE IF wallet[u] < Len(contacts) * SMS_COST THEN "InsufficientFunds"
    ELSE "ok"

(* The checks of the handler on the list of contacts the query returned.   *)
BulkOutcome(u, contacts, dt) ==
    IF ~validate_time(dt) THEN "ValidationError"
    ELSE IF contacts = <<>> THEN "NoRecipients"
    ELSE IF wallet[u] < Len(contacts) * SMS_COST THEN "InsufficientFunds"
    ELSE "ok"

BulkScheduleBegin(r, u, group_ids, dt, body, sender) ==
    /\ Free(r)
    /\ \E contacts \in QueryContacts(u, group_ids) :
          IF BulkOutcome(u, contacts, dt) = "ok"
          THEN LET total_cost == Len(contacts) * SMS_COST
               IN Open(r,
                  [op |-> "schedule", user |-> u,
                   wallet_balance |-> wallet[u] - total_cost,
                   tx |-> Transaction(u, -total_cost, "sms_scheduled", NoId),
                   new |-> [k \in DOMAIN contacts |->
                              NewScheduled(u, PhoneNumber[contacts[k]], body,
                                  sender, Instant(Localize(dt)), SMS_COST)]])
          ELSE Reject(r, "schedule_bulk_sms", u,
                      BulkOutcome(u, contacts, dt))
    /\ UNCHANGED <<now, db, gateway>>

(* --------------------- verify_schedule_ownership ------------------------ *)
(* The lookup by id alone, without the filter on the owner.                *)
Exists(sid, u) == sid \in 1 .. Len(scheduled)

(* schedule_bulk_sms for a request with any body.                          *)
BulkScheduleBodyBegin(r, u, group_ids, dt, body, sender) ==
    IF Validated[body] = "ValueError"
    THEN /\ Free(r)
         /\ Reject(r, "schedule_bulk_sms", u, "ValidationError")
         /\ UNCHANGED <<now, db, gateway>>
    ELSE BulkScheduleBegin(r, u, group_ids, dt, Validated[body], sender)

Owned(sid, u) == sid \in 1 .. Len(scheduled) /\ scheduled[sid].user_id = u

(* ------------------ get_scheduled_message (GET /{id}) ------------------- *)
GetBegin(r, u, sid) ==
    /\ Free(r)
    /\ IF Owned(sid, u)
       THEN Open(r, [op |-> "read", user |-> u, row |-> scheduled[sid]])
       ELSE Reject(r, "get_scheduled_message", u, "NotFound")
    /\ UNCHANGED <<now, db, gateway>>

(* The row is returned and the session is closed.                          *)
GetRespond(r) ==
    /\ req[r].op = "read"
    /\ req' = [req EXCEPT ![r] = Idle]
    /\ UNCHANGED <<now, db, gateway, ops>>

(* ------------------ cancel_scheduled_message (DELETE) ------------------- *)
(* cancel_scheduled_message without its status check.                      *)
CancelOutcomeAnyStatus(u, sid) ==
    IF ~Owned(sid, u) THEN "NotFound" ELSE "ok"

(* cancel_scheduled_message without the user_id filter of the lookup.      *)
CancelOutcomeAnyOwner(u, sid) ==
    IF sid \notin 1 .. Len(scheduled) THEN "NotFound"
    ELSE IF scheduled[sid].status # "pending" THEN "InvalidState"
    ELSE "ok"

CancelOutcome(u, sid) ==
    IF ~Owned(sid, u) THEN "NotFound"
    ELSE IF scheduled[sid].status # "pending" THEN "InvalidState"
    ELSE "ok"

CancelBegin(r, u, sid) ==
    /\ Free(r)
    /\ IF CancelOutcome(u, sid) = "ok"
       THEN Open(r,
                  [op |-> "cancel", user |-> u, sid |-> sid,
                   wallet_balance |-> wallet[u] + scheduled[sid].cost,
                   tx |-> Transaction(u, scheduled[sid].cost, "sms_refund", sid)])
       ELSE Reject(r, "cancel_scheduled_message", u,
                   CancelOutcome(u, sid))
    /\ UNCHANGED <<now, db, gateway>>

(* A cancel that takes the reservation row out of the log in place of      *)
(* adding a refund row.                                                    *)
CancelCommitReversing(r) ==
    /\ req[r].op = "cancel"
    /\ wallet' = [wallet EXCEPT ![req[r].user] = req[r].wallet_balance]
    /\ transactions' = transactions (-) SetToBag({Transaction(req[r].user,
                            -req[r].tx.amount, "sms_scheduled", NoId)})
    /\ scheduled' = [scheduled EXCEPT ![req[r].sid].status = "cancelled"]
    /\ req' = [req EXCEPT ![r] = Idle]
    /\ UNCHANGED <<now, messages, message_id_seq, gateway, ops>>

CancelCommit(r) ==
    /\ req[r].op = "cancel"
    /\ wallet' = [wallet EXCEPT ![req[r].user] = req[r].wallet_balance]
    /\ transactions' = BagAdd(transactions, req[r].tx)
    /\ scheduled' = [scheduled EXCEPT ![req[r].sid].status = "cancelled"]
    /\ req' = [req EXCEPT ![r] = Idle]
    /\ UNCHANGED <<now, messages, message_id_seq, gateway, ops>>

(* The body of the 200 response: refunded_amount is scheduled.cost.        *)
CancelResponse(sid) == [refunded_amount |-> scheduled[sid].cost]

(* ------------------- update_scheduled_message (PUT) --------------------- *)
(* ScheduleUpdateRequest: every field optional; validate_time as above     *)
(* when a scheduled_time is given.  A field is applied when it is truthy   *)
(* (message, scheduled_time) or not None (sender_id).                      *)
NoDateTime == [wall |-> 0, tz |-> None]

(* Updates that carry a body the schedule requests would refuse.          *)
UpdateBodyInputs ==
    [message : {"", " ", LongBody}, scheduled_time : {NoDateTime},
     sender_id : {"LUCO"}]

UpdateInputs ==
    {[message |-> "yo", scheduled_time |-> NoDateTime, sender_id |-> "LUCO"]}
    \cup [message : {None}, scheduled_time : DateTimes, sender_id : {None}]

(* update_scheduled_message without its status check.                      *)
UpdateOutcomeAnyStatus(u, sid, dt) ==
    IF dt # NoDateTime /\ ~validate_time(dt) THEN "ValidationError"
    ELSE IF ~Owned(sid, u) THEN "NotFound"
    ELSE "ok"

(* update_scheduled_message with a request model that accepts any time.    *)
UpdateOutcomeAnyTime(u, sid, dt) ==
    IF ~Owned(sid, u) THEN "NotFound"
    ELSE IF scheduled[sid].status # "pending" THEN "InvalidState"
    ELSE "ok"

UpdateOutcome(u, sid, dt) ==
    IF dt # NoDateTime /\ ~validate_time(dt) THEN "ValidationError"
    ELSE IF ~Owned(sid, u) THEN "NotFound"
    ELSE IF scheduled[sid].status # "pending" THEN "InvalidState"
    ELSE "ok"

UpdateBegin(r, u, sid, body, dt, sender) ==
    /\ Free(r)
    /\ IF UpdateOutcome(u, sid, dt) = "ok"
       THEN Open(r,
                  [op |-> "update", user |-> u, sid |-> sid,
                   message |-> IF body # None /\ body # "" THEN body
                               ELSE scheduled[sid].message,
                   scheduled_time |-> IF dt # NoDateTime
                                      THEN Instant(Localize(dt))
                                      ELSE scheduled[sid].scheduled_time,
                   sender_id |-> IF sender # None THEN sender
                                 ELSE scheduled[sid].sender_id])
       ELSE Reject(r, "update_scheduled_message", u,
                   UpdateOutcome(u, sid, dt))
    /\ UNCHANGED <<now, db, gateway>>

(* db.commit() of update_scheduled_message.  The message column is        *)
(* String(160): the database refuses a longer value, the commit raises and *)
(* nothing is written.                                                     *)
UpdateCommit(r) ==
    /\ req[r].op = "update"
    /\ IF Len(req[r].message) > MAX_MESSAGE
       THEN UNCHANGED scheduled
       ELSE scheduled' = [scheduled EXCEPT
               ![req[r].sid].message = req[r].message,
               ![req[r].sid].scheduled_time = req[r].scheduled_time,
               ![req[r].sid].sender_id = req[r].sender_id]
    /\ req' = [req EXCEPT ![r] = Idle]
    /\ UNCHANGED <<now, wallet, transactions, messages, message_id_seq,
                   gateway, ops>>

(* --------------------- send_sms (POST /sms/send) ------------------------ *)
RecipientLists == {<<>>, <<"+254700000001">>,
                   <<"+254700000001", "+254700000002">>}

(* send_sms without its balance check.                                     *)
SendOutcomeUnchecked(u, recipients) ==
    IF recipients = <<>> THEN "ValidationError" ELSE "ok"

(* SMSRequest.validate_phone_numbers: at least one recipient. *)
SendOutcome(u, recipients) ==
    IF recipients = <<>> THEN "ValidationError"
    ELSE IF wallet[u] < Len(recipients) * SMS_COST THEN "InsufficientFunds"
    ELSE "ok"

SendSession(u, recipients, body, sender) ==
    LET total_cost == Len(recipients) * SMS_COST
    IN [op |-> "send", user |-> u,
        wallet_balance |-> wallet[u] - total_cost,
        tx |-> Transaction(u, -total_cost, "sms_send", NoId),
        new |-> [k \in DOMAIN recipients |->
                   NewMessage(u, recipients[k], body, sender, "pending",
                              SMS_COST)]]

SendBegin(r, u, recipients, body, sender) ==
    /\ Free(r)
    /\ IF SendOutcome(u, recipients) = "ok"
       THEN Open(r, SendSession(u, recipients, body, sender))
       ELSE Reject(r, "send_sms", u,
                   SendOutcome(u, recipients))
    /\ UNCHANGED <<now, db, gateway>>

(* ------------------ send_bulk_sms (POST /sms/send-bulk) ----------------- *)
SendBulkOutcome(u, group_ids) ==
    IF ResolveContacts(u, group_ids) = {} THEN "NoRecipients"
    ELSE IF wallet[u] < Cardinality(ResolveContacts(u, group_ids)) * SMS_COST
         THEN "InsufficientFunds"
    ELSE "ok"

SendBulkBegin(r, u, group_ids, body, sender) ==
    /\ Free(r)
    /\ IF SendBulkOutcome(u, group_ids) = "ok"
       THEN \E contacts \in Orders(ResolveContacts(u, group_ids)) :
              Open(r, SendSession(u,
                        [k \in DOMAIN contacts |-> PhoneNumber[contacts[k]]],
                        body, sender))
       ELSE Reject(r, "send_bulk_sms", u,
                   SendBulkOutcome(u, group_ids))
    /\ UNCHANGED <<now, db, gateway>>

(* INSERT of rows into sms_messages: the ids come from the sequence.       *)
RECURSIVE InsertAll(_, _)
InsertAll(table, new) ==
    IF new = <<>> THEN table
    ELSE InsertAll(table @@ (Head(new).id :> Head(new).row), Tail(new))

(* A commit of the debit and the rows without the Transactions row.        *)
SendCommitNoLedger(r) ==
    /\ req[r].op = "send"
    /\ LET new == [k \in DOMAIN req[r].new |->
                     [id |-> message_id_seq + k, row |-> req[r].new[k]]]
       IN /\ messages' = InsertAll(messages, new)
          /\ message_id_seq' = message_id_seq + Len(new)
          /\ req' = [req EXCEPT ![r] =
                [op |-> "dispatch",
                 message_ids |-> {message_id_seq + k : k \in DOMAIN new}]]
    /\ wallet' = [wallet EXCEPT ![req[r].user] = req[r].wallet_balance]
    /\ UNCHANGED <<now, transactions, scheduled, gateway, ops>>

(* db.commit() of send_sms and send_bulk_sms; the handler then hands the   *)
(* ids of the new rows to the background task.                             *)
SendCommit(r) ==
    /\ req[r].op = "send"
    /\ LET new == [k \in DOMAIN req[r].new |->
                     [id |-> message_id_seq + k, row |-> req[r].new[k]]]
       IN /\ messages' = InsertAll(messages, new)
          /\ message_id_seq' = message_id_seq + Len(new)
          /\ req' = [req EXCEPT ![r] =
                [op |-> "dispatch",
                 message_ids |-> {message_id_seq + k : k \in DOMAIN new}]]
    /\ wallet' = [wallet EXCEPT ![req[r].user] = req[r].wallet_balance]
    /\ transactions' = BagAdd(transactions, req[r].tx)
    /\ UNCHANGED <<now, scheduled, gateway, ops>>

(* process_sms_sending: per message, the status the gateway reports for    *)
(* the recipient ("sent" when the response names no recipient), or         *)
(* "failed" when the call raises; one commit at the end.                   *)
GatewayStatuses == {"Success", "InvalidPhoneNumber"}
DispatchOutcomes == GatewayStatuses \cup {"norecipients", "raise"}

DispatchStatus(outcome) ==
    IF outcome = "raise" THEN "failed"
    ELSE IF outcome = "norecipients" THEN "sent"
    ELSE outcome

DispatchWith(r, outcomes) ==
    /\ req[r].op = "dispatch"
    /\ messages' = [id \in DOMAIN messages |->
          IF id \in req[r].message_ids
          THEN [messages[id] EXCEPT !.status = DispatchStatus(outcomes[id])]
          ELSE messages[id]]
    /\ req' = [req EXCEPT ![r] = Idle]
    /\ UNCHANGED <<now, wallet, transactions, scheduled, message_id_seq,
                   gateway, ops>>

Dispatch(r) ==
    /\ req[r].op = "dispatch"
    /\ \E outcomes \in [req[r].message_ids -> DispatchOutcomes] :
          DispatchWith(r, outcomes)

(* ------------------ client_send_sms (POST /send-sms) -------------------- *)
(* The X-API-Key header of a request: a key of the table, a key that is   *)
(* not in it, or no header.                                                *)
KeyInputs == ApiKeys \cup {"Luco_0", None}

(* client_send_sms without its balance check.                              *)
DevSendOutcomeUnchecked(key, recipients) ==
    IF key \notin ApiKeys \/ ~KeyActive[key] THEN "Unauthorized"
    ELSE IF recipients = <<>> THEN "ValidationError"
    ELSE "ok"

(* get_api_user: the key must exist and be active. *)
DevSendOutcome(key, recipients) ==
    IF key \notin ApiKeys \/ ~KeyActive[key] THEN "Unauthorized"
    ELSE IF recipients = <<>> THEN "ValidationError"
    ELSE IF wallet[KeyUser[key]] < SMS_COST * Len(recipients)
         THEN "InsufficientFunds"
    ELSE "ok"

DevSendBegin(r, key, recipients, body) ==
    /\ Free(r)
    /\ IF DevSendOutcome(key, recipients) = "ok"
       THEN Open(r, [op |-> "devsend", user |-> KeyUser[key],
                     wallet_balance |-> wallet[KeyUser[key]],
                     recipients |-> recipients, message |-> body])
       ELSE Reject(r, "client_send_sms",
                   IF key \in ApiKeys THEN KeyUser[key] ELSE None,
                   DevSendOutcome(key, recipients))
    /\ UNCHANGED <<now, db, gateway>>

(* The gateway call and what follows it: any failure (an exception, no     *)
(* response data, no recipient with status Success) rolls back; otherwise  *)
(* the debit, the Messages rows and the Transactions row are committed.    *)
DevGatewayOutcomes == {"Success", "nosuccess", "nodata", "raise"}

DevSendFinish(r, outcome) ==
    /\ req[r].op = "devsend"
    /\ IF outcome = "Success"
       THEN LET total_cost == SMS_COST * Len(req[r].recipients)
                u == req[r].user
                new == [k \in DOMAIN req[r].recipients |->
                          [id |-> message_id_seq + k,
                           row |-> NewMessage(u, req[r].recipients[k],
                                      req[r].message, None, "sent", SMS_COST)]]
            IN /\ wallet' = [wallet EXCEPT ![u] =
                                 req[r].wallet_balance - total_cost]
               /\ messages' = InsertAll(messages, new)
               /\ message_id_seq' = message_id_seq + Len(new)
               /\ transactions' = BagAdd(transactions, Transaction(u, -total_cost, "sms_deduction", NoId))
       ELSE UNCHANGED <<wallet, messages, message_id_seq, transactions>>
    /\ req' = [req EXCEPT ![r] = Idle]
    /\ UNCHANGED <<now, scheduled, gateway, ops>>

(* ------------------ process_scheduled_messages (scan) ------------------- *)
(* The query with a strict comparison of the scheduled time.               *)
DueStrict == {sid \in 1 .. Len(scheduled) :
                 /\ scheduled[sid].status = "pending"
                 /\ scheduled[sid].scheduled_time < now}

(* The query without the comparison of the scheduled time.                 *)
DueAnyTime == {sid \in 1 .. Len(scheduled) : scheduled[sid].status = "pending"}

(* The query of the due rows; it has no ORDER BY, so the rows come in any  *)
(* order.                                                                  *)
Due == {sid \in 1 .. Len(scheduled) :
           /\ scheduled[sid].status = "pending"
           /\ scheduled[sid].scheduled_time <= now}

ScanStart(s, by) ==
    /\ Free(s)
    /\ by = "job" => \A q \in Slots : ~(req[q].op = "scan" /\ req[q].by = "job")
    /\ Due # {}
    /\ \E o \in Orders(Due) :
          Open(s,
             [op |-> "scan", by |-> by, now |-> now, i |-> 0,
              ids |-> o,
              rows |-> [k \in DOMAIN o |-> scheduled[o[k]]],
              wallet_balance |-> [u \in Users |-> NoBalance],
              tx |-> <<>>,
              msgs |-> <<>>])
    /\ UNCHANGED <<now, db, gateway>>

(* A run of the interval job: the scheduler starts one every minute for as *)
(* long as the process runs, whatever the number of requests served, and   *)
(* skips the run while the previous one is still executing.                *)
TimerScan(s) ==
    /\ req[s] = Idle
    /\ s = "r2" => req["r1"] # Idle
    /\ \A q \in Slots : ~(req[q].op = "scan" /\ req[q].by = "job")
    /\ Due # {}
    /\ \E o \in Orders(Due) :
          req' = [req EXCEPT ![s] =
             [op |-> "scan", by |-> "job", now |-> now, i |-> 0,
              ids |-> o,
              rows |-> [k \in DOMAIN o |-> scheduled[o[k]]],
              wallet_balance |-> [u \in Users |-> NoBalance],
              tx |-> <<>>,
              msgs |-> <<>>]]
    /\ UNCHANGED <<now, db, gateway, ops>>

(* user.wallet_balance += scheduled.cost, on the user object of the        *)
(* session; NoCredit is the except branch without it.                      *)
NoCredit(balance, amount) == balance

Credit(balance, amount) == balance + amount

(* What send_message does in the scan: it returns a response that reports  *)
(* success for the recipient ("ok"), returns a response that reports       *)
(* another status or no recipient ("nosuccess"), or raises ("raise").      *)
ScanGatewayOutcomes == {"ok", "nosuccess", "raise"}

(* The loop with an except branch that only logs: the item stays as the    *)
(* claim left it and nothing is refunded.                                  *)
ScanItemUnrecovered(s, outcome) ==
    /\ req[s].op = "scan"
    /\ req[s].i < Len(req[s].ids)
    /\ LET k == req[s].i + 1
           sid == req[s].ids[k]
           row == [req[s].rows[k] EXCEPT !.status = "processing",
                                          !.attempts = @ + 1,
                                          !.last_attempt_at = req[s].now]
           mid == message_id_seq + 1
       IN /\ gateway' = BagAdd(gateway, sid)
          /\ IF outcome # "raise"
             THEN /\ message_id_seq' = mid
                  /\ req' = [req EXCEPT
                        ![s].i = k,
                        ![s].msgs = Append(@, [id |-> mid, row |->
                            NewMessage(row.user_id, row.recipient, row.message,
                                       row.sender_id, "sent", row.cost)]),
                        ![s].rows[k] = [row EXCEPT !.status = "sent",
                                                   !.sent_message_id = mid,
                                                   !.processed_at = req[s].now]]
             ELSE /\ UNCHANGED message_id_seq
                  /\ req' = [req EXCEPT ![s].i = k, ![s].rows[k] = row]
    /\ UNCHANGED <<now, wallet, transactions, scheduled, messages, ops>>

(* One iteration of the loop over due_messages: the claim in the session,  *)
(* the gateway call and the recording of its outcome.  The response is     *)
(* assigned and not looked at: only an exception selects the except branch.*)
ScanItem(s, outcome) ==
    /\ req[s].op = "scan"
    /\ req[s].i < Len(req[s].ids)
    /\ LET k == req[s].i + 1
           sid == req[s].ids[k]
           row == [req[s].rows[k] EXCEPT !.status = "processing",
                                          !.attempts = @ + 1,
                                          !.last_attempt_at = req[s].now]
           u == row.user_id
           mid == message_id_seq + 1
           loaded == IF req[s].wallet_balance[u] = NoBalance
                     THEN wallet[u] ELSE req[s].wallet_balance[u]
       IN /\ gateway' = BagAdd(gateway, sid)
          /\ IF outcome # "raise"
             THEN /\ message_id_seq' = mid
                  /\ req' = [req EXCEPT
                        ![s].i = k,
                        ![s].msgs = Append(@, [id |-> mid, row |->
                            NewMessage(u, row.recipient, row.message,
                                       row.sender_id, "sent", row.cost)]),
                        ![s].rows[k] = [row EXCEPT !.status = "sent",
                                                   !.sent_message_id = mid,
                                                   !.processed_at = req[s].now]]
             ELSE /\ UNCHANGED message_id_seq
                  /\ req' = [req EXCEPT
                        ![s].i = k,
                        ![s].wallet_balance[u] = Credit(loaded, row.cost),
                        ![s].tx = Append(@,
                            Transaction(u, row.cost, "sms_refund", sid)),
                        ![s].rows[k] = [row EXCEPT !.status = "failed",
                                                   !.error_message = "Failed to send SMS"]]
    /\ UNCHANGED <<now, wallet, transactions, scheduled, messages, ops>>

(* A commit that leaves the link to the message row out.                   *)
ScanWriteUnlinked(old, row) ==
    [old EXCEPT !.status = row.status, !.attempts = row.attempts,
                !.last_attempt_at = row.last_attempt_at,
                !.error_message = row.error_message,
                !.processed_at = row.processed_at]

(* What db.commit() writes to a scheduled_messages row: the columns the    *)
(* session changed.                                                        *)
ScanWrite(old, row) ==
    IF row.status = "sent"
    THEN [old EXCEPT !.status = row.status, !.attempts = row.attempts,
                     !.last_attempt_at = row.last_attempt_at,
                     !.sent_message_id = row.sent_message_id,
                     !.processed_at = row.processed_at]
    ELSE [old EXCEPT !.status = row.status, !.attempts = row.attempts,
                     !.last_attempt_at = row.last_attempt_at,
                     !.error_message = row.error_message]

ScanCommit(s) ==
    /\ req[s].op = "scan"
    /\ req[s].i = Len(req[s].ids)
    /\ scheduled' = [sid \in DOMAIN scheduled |->
          IF \E k \in DOMAIN req[s].ids : req[s].ids[k] = sid
          THEN ScanWrite(scheduled[sid],
                  req[s].rows[CHOOSE k \in DOMAIN req[s].ids :
                                   req[s].ids[k] = sid])
          ELSE scheduled[sid]]
    /\ wallet' = [u \in Users |->
          IF req[s].wallet_balance[u] # NoBalance
          THEN req[s].wallet_balance[u] ELSE wallet[u]]
    /\ transactions' = BagAddAll(transactions, req[s].tx)
    /\ messages' = InsertAll(messages, req[s].msgs)
    /\ req' = [req EXCEPT ![s] = Idle]
    /\ UNCHANGED <<now, message_id_seq, gateway, ops>>

(* db.flush() raises after the gateway call returned: the flush rolls the  *)
(* transaction of the session back, the query of the except branch raises  *)
(* on the rolled back session, the exception leaves the function and the   *)
(* caller closes the session.  Nothing of the scan is committed.           *)
ScanItemFlushFails(s) ==
    /\ req[s].op = "scan"
    /\ req[s].i < Len(req[s].ids)
    /\ gateway' = BagAdd(gateway, req[s].ids[req[s].i + 1])
    /\ req' = [req EXCEPT ![s] = Idle]
    /\ UNCHANGED <<now, db, ops>>

(* db.commit() at the end of the scan raises: the transaction is rolled    *)
(* back and the caller closes the session.                                 *)
ScanCommitFails(s) ==
    /\ req[s].op = "scan"
    /\ req[s].i = Len(req[s].ids)
    /\ req' = [req EXCEPT ![s] = Idle]
    /\ UNCHANGED <<now, db, gateway, ops>>

(* The process stops: every open session is lost with what it had not      *)
(* committed; the database keeps what was committed.                       *)
Crash ==
    /\ \E r \in Slots : req[r] # Idle
    /\ req' = [r \in Slots |-> Idle]
    /\ UNCHANGED <<now, db, gateway, ops>>

Next ==
    \/ Tick
    \/ \E r \in Slots, u \in Users, a \in TopupAmounts : TopupBegin(r, u, a)
    \/ \E r \in Slots : TopupCommit(r)
    \/ \E r \in Slots, u \in Users, dt \in DateTimes :
          ScheduleBegin(r, u, dt, "hi", None, "+254700000001")
    \/ \E r \in Slots, u \in Users, g \in GroupInputs, dt \in DateTimes :
          BulkScheduleBegin(r, u, g, dt, "hi", None)
    \/ \E r \in Slots : ScheduleCommit(r)
    \/ \E r \in Slots, u \in Users, sid \in 1 .. Len(scheduled) + 1 :
          CancelBegin(r, u, sid)
    \/ \E r \in Slots : CancelCommit(r)
    \/ \E r \in Slots, u \in Users, sid \in 1 .. Len(scheduled) + 1, f \in UpdateInputs :
          UpdateBegin(r, u, sid, f.message, f.scheduled_time, f.sender_id)
    \/ \E r \in Slots : UpdateCommit(r)
    \/ \E r \in Slots, u \in Users, rc \in RecipientLists :
          SendBegin(r, u, rc, "hi", None)
    \/ \E r \in Slots, u \in Users, g \in GroupInputs :
          SendBulkBegin(r, u, g, "hi", None)
    \/ \E r \in Slots : SendCommit(r)
    \/ \E r \in Slots : Dispatch(r)
    \/ \E r \in Slots, key \in KeyInputs, rc \in RecipientLists :
          DevSendBegin(r, key, rc, "hi")
    \/ \E r \in Slots, outcome \in DevGatewayOutcomes : DevSendFinish(r, outcome)
    \/ \E r \in Slots : Respond(r)
    \/ \E s \in Slots, by \in Triggers : ScanStart(s, by)
    \/ \E s \in Slots, outcome \in ScanGatewayOutcomes : ScanItem(s, outcome)
    \/ \E s \in Slots : ScanCommit(s)

Spec == Init /\ [][Next]_vars

(* The program with failures of the database and of the process.           *)
Faults ==
    \/ \E s \in Slots : ScanItemFlushFails(s)
    \/ \E s \in Slots : ScanCommitFails(s)
    \/ Crash

NextWithFaults == Next \/ Faults

SpecWithFaults == Init /\ [][NextWithFaults]_vars

(* The program with the read of one scheduled message among its requests.  *)
NextWithReads ==
    \/ Next
    \/ \E r \in Slots, u \in Users, sid \in 1 .. Len(scheduled) + 1 :
          GetBegin(r, u, sid)
    \/ \E r \in Slots : GetRespond(r)

SpecWithReads == Init /\ [][NextWithReads]_vars

(* The program with requests that carry any body.                          *)
NextWithBodies ==
    \/ Next
    \/ \E r \in Slots, u \in Users, dt \in DateTimes, body \in BodyInputs :
          ScheduleBodyBegin(r, u, dt, body, None, "+254700000001")
    \/ \E r \in Slots, u \in Users, g \in GroupInputs, dt \in DateTimes,
          body \in BodyInputs :
          BulkScheduleBodyBegin(r, u, g, dt, body, None)
    \/ \E r \in Slots, u \in Users, sid \in 1 .. Len(scheduled) + 1,
          f \in UpdateBodyInputs :
          UpdateBegin(r, u, sid, f.message, f.scheduled_time, f.sender_id)

SpecWithBodies == Init /\ [][NextWithBodies]_vars

(* A scheduled_time one hour after the last hour of the clock of Tick, and *)
(* the hour of the clock at which it is due.                               *)
LateTime == [wall |-> EAT_OFFSET + MaxTime + 1, tz |-> "naive"]

LateTick ==
    /\ now = MaxTime
    /\ now' = now + 1
    /\ UNCHANGED <<db, req, gateway, ops>>

(* The program with messages scheduled for two different hours: a request  *)
(* for the later hour, the clock reaching it, and the runs of the interval *)
(* job.                                                                    *)
NextWithTimes ==
    \/ Next
    \/ LateTick
    \/ \E r \in Slots, u \in Users :
          ScheduleBegin(r, u, LateTime, "hi", None, "+254700000001")
    \/ \E s \in Slots : TimerScan(s)

SpecWithTimes == Init /\ [][NextWithTimes]_vars

(* The step of the handler running on thread r that follows its first      *)
(* read: a thread that has started a handler runs it to its end, and the   *)
(* gateway call of a scan returns.                                         *)
Completes(r) ==
    \/ TopupCommit(r)
    \/ ScheduleCommit(r)
    \/ CancelCommit(r)
    \/ UpdateCommit(r)
    \/ SendCommit(r)
    \/ Dispatch(r)
    \/ \E outcome \in DevGatewayOutcomes : DevSendFinish(r, outcome)
    \/ Respond(r)
    \/ \E outcome \in ScanGatewayOutcomes : ScanItem(r, outcome)
    \/ ScanCommit(r)

NextWithTimer == Next \/ \E s \in Slots : TimerScan(s)

(* The program without failures, its handlers running to completion and    *)
(* the interval job being run again and again.                             *)
LiveSpec ==
    /\ Init
    /\ [][NextWithTimer]_vars
    /\ \A r \in Slots : WF_vars(Completes(r))
    /\ WF_vars(\E s \in Slots : TimerScan(s))

(* ----------------------------- properties ------------------------------ *)
Quiescent == \A r \in Slots : req[r] = Idle

RECURSIVE SumAmounts(_, _)
SumAmounts(b, S) ==
    IF S = {} THEN 0
    ELSE LET t == CHOOSE x \in S : TRUE
         IN b[t] * t.amount + SumAmounts(b, S \ {t})

(* sum(transaction.amount for transaction in user.transactions) *)
LedgerSum(u) ==
    SumAmounts(transactions, {t \in BagToSet(transactions) : t.user_id = u})

(* The number of sms_refund rows written for scheduled message sid with    *)
(* the amount c.                                                           *)
RefundsIn(txs, u, sid, c) ==
    CopiesIn(Transaction(u, c, "sms_refund", sid), txs)

Refunds(sid, c) == RefundsIn(transactions, scheduled[sid].user_id, sid, c)

(* C1: in every reachable state, for every user, the wallet balance equals *)
(* the sum of the amounts of the user's Transaction rows.                  *)
LedgerInvariant == \A u \in Users : wallet[u] = LedgerSum(u)

(* C2: once no request or scan is in flight, every scheduled message that  *)
(* is failed or cancelled has exactly one sms_refund row of its cost, and  *)
(* every scheduled message that is sent has none.                          *)
ExactlyOnceRefund ==
    Quiescent =>
        \A sid \in DOMAIN scheduled :
            /\ scheduled[sid].status \in {"failed", "cancelled"}
                  => Refunds(sid, scheduled[sid].cost) = 1
            /\ scheduled[sid].status = "sent"
                  => Refunds(sid, scheduled[sid].cost) = 0

(* C3: two due-scans in flight at once never both hold the same scheduled  *)
(* message claimed (moved from pending to processing in their session).    *)
AtMostOneClaim ==
    \A r1, r2 \in Slots :
        (r1 # r2 /\ req[r1].op = "scan" /\ req[r2].op = "scan")
            => \A k1 \in 1 .. req[r1].i, k2 \in 1 .. req[r2].i :
                  req[r1].ids[k1] # req[r2].ids[k2]

(* C4: the debits committed for a user never exceed the funds credited to  *)
(* the user: two requests cannot both spend the same balance.              *)
DebitsWithinFunds == \A u \in Users : LedgerSum(u) >= 0

(* The session on thread r is the refusal of handler's request by u.       *)
Rejected(r, handler, u, error) ==
    req[r] = [op |-> "rejected", handler |-> handler, user |-> u,
              error |-> error]

(* The step opens a session on thread r.                                  *)
Opens(r) == req[r] = Idle /\ req'[r] # Idle

(* The step ends the session on thread r.                                  *)
Closes(r) == req[r] # Idle /\ req'[r] = Idle

(* A refused request of handler ends without writing anything.             *)
RefusalWritesNothing(handler, error) ==
    \A r \in Slots :
        (req[r].op = "rejected" /\ req[r].handler = handler
            /\ req[r].error = error /\ req'[r] # req[r])
        => (req'[r] = Idle /\ UNCHANGED db)

(* C5: schedule_sms with a valid time for a user whose balance is below    *)
(* the cost of one SMS is refused with InsufficientFunds, and the refused  *)
(* request changes neither the wallets, nor the transactions, nor the      *)
(* scheduled messages.                                                     *)
InsufficientFundsAtomic ==
    [][/\ \A r \in Slots, u \in Users, dt \in DateTimes :
             (/\ Opens(r)
              /\ validate_time(dt)
              /\ wallet[u] < SMS_COST
              /\ ScheduleBegin(r, u, dt, "hi", None, "+254700000001"))
             => (/\ Rejected(r, "schedule_sms", u, "InsufficientFunds")'
                 /\ UNCHANGED db)
       /\ RefusalWritesNothing("schedule_sms", "InsufficientFunds")]_vars

InsufficientFundsRefused ==
    \E r \in Slots, u \in Users :
        /\ Rejected(r, "schedule_sms", u, "InsufficientFunds")
        /\ wallet[u] > 0
        /\ wallet[u] < SMS_COST
        /\ LedgerSum(u) = wallet[u]

(* The time the request names, read in EAT when it carries no zone, is not *)
(* after the clock.                                                        *)
NotAfterNow(dt) ==
    (IF dt.tz = "naive" THEN dt.wall - EAT_OFFSET ELSE dt.wall) <= now

(* C6: schedule_sms and schedule_bulk_sms with a scheduled time that is    *)
(* not strictly after the current time (a naive time read in EAT) are      *)
(* refused with a validation error and change neither the wallets, nor the *)
(* transactions, nor the scheduled messages.                               *)
FutureTimeValidation ==
    [][/\ \A r \in Slots, u \in Users, dt \in DateTimes :
             (/\ Opens(r)
              /\ NotAfterNow(dt)
              /\ ScheduleBegin(r, u, dt, "hi", None, "+254700000001"))
             => (/\ Rejected(r, "schedule_sms", u, "ValidationError")'
                 /\ UNCHANGED db)
       /\ \A r \in Slots, u \in Users, dt \in DateTimes, g \in GroupInputs :
             (/\ Opens(r)
              /\ NotAfterNow(dt)
              /\ BulkScheduleBegin(r, u, g, dt, "hi", None))
             => (/\ Rejected(r, "schedule_bulk_sms", u, "ValidationError")'
                 /\ UNCHANGED db)
       /\ RefusalWritesNothing("schedule_sms", "ValidationError")
       /\ RefusalWritesNothing("schedule_bulk_sms", "ValidationError")]_vars

PastTimeRefused ==
    \E r1, r2 \in Slots, u \in Users :
        /\ Rejected(r1, "schedule_sms", u, "ValidationError")
        /\ Rejected(r2, "schedule_bulk_sms", u, "ValidationError")
        /\ wallet[u] >= SMS_COST
        /\ ResolveContacts(u, {"g1", "g2", "g3"}) # {}
        /\ now > 0

(* The rows of the scan on thread s that it recorded with status st, as    *)
(* positions in its list of due rows.                                      *)
Recorded(s, st) == {k \in DOMAIN req[s].ids : req[s].rows[k].status = st}

(* The scan on thread s loaded no user, or the balance it holds for u is   *)
(* the committed one plus the refunds it recorded for u.                   *)
BalanceCurrent(s, u) ==
    \/ req[s].wallet_balance[u] = NoBalance
    \/ req[s].wallet_balance[u] =
          wallet[u] + SMS_COST * Cardinality({k \in Recorded(s, "failed") :
                                      req[s].rows[k].user_id = u})

(* C7: schedule_sms with a valid time for a user with balance B >= the     *)
(* cost is accepted, and its commit leaves B - cost and one more pending   *)
(* scheduled message when no other request wrote the wallet in between; a  *)
(* scan whose gateway call succeeds records the message as sent, and its   *)
(* commit leaves it sent with sent_message_id and processed_at set, one    *)
(* new Messages row per sent message with status sent and the same cost,   *)
(* no refund row for it, and the balance of a user it refunded nothing to  *)
(* unchanged.                                                              *)
ScheduledSendSucceeds ==
    [][/\ \A r \in Slots, u \in Users, dt \in DateTimes :
             (/\ Opens(r)
              /\ validate_time(dt)
              /\ wallet[u] >= SMS_COST
              /\ ScheduleBegin(r, u, dt, "hi", None, "+254700000001"))
             => (/\ req'[r].op = "schedule"
                 /\ req'[r].wallet_balance = wallet[u] - SMS_COST
                 /\ UNCHANGED db)
       /\ \A r \in Slots :
             (/\ req[r].op = "schedule"
              /\ Closes(r)
              /\ Len(req[r].new) = 1
              /\ wallet[req[r].user] = req[r].wallet_balance + SMS_COST)
             => (/\ wallet'[req[r].user] = wallet[req[r].user] - SMS_COST
                 /\ Len(scheduled') = Len(scheduled) + 1
                 /\ scheduled'[Len(scheduled')].status = "pending"
                 /\ scheduled'[Len(scheduled')].cost = SMS_COST
                 /\ scheduled'[Len(scheduled')].user_id = req[r].user)
       /\ \A s \in Slots :
             (req[s].op = "scan" /\ ScanItem(s, "ok"))
             => (/\ req'[s].rows[req'[s].i].status = "sent"
                 /\ req'[s].rows[req'[s].i].sent_message_id # NoId
                 /\ req'[s].rows[req'[s].i].processed_at = req[s].now
                 /\ req'[s].wallet_balance = req[s].wallet_balance
                 /\ req'[s].tx = req[s].tx
                 /\ UNCHANGED <<wallet, transactions, scheduled, messages>>)
       /\ \A s \in Slots :
             (req[s].op = "scan" /\ Closes(s))
             => /\ \A k \in Recorded(s, "sent") :
                      LET sid == req[s].ids[k]
                          mid == scheduled'[sid].sent_message_id
                      IN /\ scheduled'[sid].status = "sent"
                         /\ scheduled'[sid].processed_at = req[s].now
                         /\ mid \in DOMAIN messages' \ DOMAIN messages
                         /\ messages'[mid].status = "sent"
                         /\ messages'[mid].cost = scheduled[sid].cost
                         /\ messages'[mid].user_id = scheduled[sid].user_id
                         /\ RefundsIn(transactions', scheduled[sid].user_id,
                                      sid, scheduled[sid].cost)
                               = Refunds(sid, scheduled[sid].cost)
                         /\ \A j \in Recorded(s, "sent") :
                               j # k => scheduled'[req[s].ids[j]].sent_message_id # mid
                /\ Cardinality(DOMAIN messages' \ DOMAIN messages)
                      = Cardinality(Recorded(s, "sent"))
                /\ \A u \in Users :
                      req[s].wallet_balance[u] = NoBalance
                          => wallet'[u] = wallet[u]]_vars

ScheduledSendSent ==
    /\ Quiescent
    /\ \E u \in Users :
          /\ wallet[u] = TOPUP - SMS_COST
          /\ LedgerSum(u) = wallet[u]
          /\ Len(scheduled) = 1
          /\ scheduled[1].user_id = u
          /\ scheduled[1].status = "sent"
          /\ scheduled[1].processed_at # NoTime
          /\ DOMAIN messages = {scheduled[1].sent_message_id}
          /\ messages[scheduled[1].sent_message_id].status = "sent"
          /\ messages[scheduled[1].sent_message_id].cost = scheduled[1].cost
          /\ Refunds(1, scheduled[1].cost) = 0

(* C8: a scan whose gateway call raises records the message as failed with *)
(* the error message, one sms_refund row of its cost and the cost added to *)
(* the balance it holds for the user, and no Messages row; its commit      *)
(* leaves the message failed with the error message, exactly one more      *)
(* refund row for it, no Messages row for it, and, when no other request   *)
(* wrote the wallet in between, the balance raised by the cost.            *)
ScheduledSendFails ==
    [][/\ \A s \in Slots :
             (req[s].op = "scan" /\ ScanItem(s, "raise"))
             => LET k == req'[s].i
                    sid == req[s].ids[k]
                    u == req[s].rows[k].user_id
                    c == req[s].rows[k].cost
                    held == IF req[s].wallet_balance[u] = NoBalance
                            THEN wallet[u] ELSE req[s].wallet_balance[u]
                IN /\ req'[s].rows[k].status = "failed"
                   /\ req'[s].rows[k].error_message # None
                   /\ req'[s].wallet_balance[u] = held + c
                   /\ req'[s].tx = Append(req[s].tx,
                                     Transaction(u, c, "sms_refund", sid))
                   /\ req'[s].msgs = req[s].msgs
                   /\ UNCHANGED db
       /\ \A s \in Slots :
             (req[s].op = "scan" /\ Closes(s))
             => /\ \A k \in Recorded(s, "failed") :
                      LET sid == req[s].ids[k]
                      IN /\ scheduled'[sid].status = "failed"
                         /\ scheduled'[sid].error_message # None
                         /\ scheduled'[sid].sent_message_id
                               = scheduled[sid].sent_message_id
                         /\ RefundsIn(transactions', scheduled[sid].user_id,
                                      sid, scheduled[sid].cost)
                               = Refunds(sid, scheduled[sid].cost) + 1
                /\ Cardinality(DOMAIN messages' \ DOMAIN messages)
                      = Cardinality(Recorded(s, "sent"))
                /\ \A u \in Users :
                      BalanceCurrent(s, u)
                          => wallet'[u] = wallet[u] + SMS_COST *
                                Cardinality({k \in Recorded(s, "failed") :
                                                req[s].rows[k].user_id = u})]_vars

ScheduledSendFailed ==
    /\ Quiescent
    /\ \E u \in Users :
          /\ wallet[u] = TOPUP
          /\ LedgerSum(u) = wallet[u]
          /\ Len(scheduled) = 1
          /\ scheduled[1].user_id = u
          /\ scheduled[1].status = "failed"
          /\ scheduled[1].error_message # None
          /\ scheduled[1].sent_message_id = NoId
          /\ Refunds(1, scheduled[1].cost) = 1
          /\ DOMAIN messages = {}

(* C9: cancel_scheduled_message by the owner is accepted only when the     *)
(* status it reads is pending, and is refused with InvalidState from any   *)
(* other status, the refused request writing nothing; the commit of an     *)
(* accepted cancel sets the status cancelled, adds one sms_refund row of   *)
(* the message's cost, returns that cost as refunded_amount and, when no   *)
(* other request wrote the wallet in between, raises the balance by it.    *)
CancelOnlyPending ==
    [][/\ \A r \in Slots, u \in Users, sid \in DOMAIN scheduled :
             (Opens(r) /\ Owned(sid, u) /\ CancelBegin(r, u, sid))
             => /\ UNCHANGED db
                /\ IF scheduled[sid].status = "pending"
                   THEN /\ req'[r].op = "cancel"
                        /\ req'[r].sid = sid
                        /\ req'[r].user = u
                   ELSE Rejected(r, "cancel_scheduled_message", u,
                                 "InvalidState")'
       /\ RefusalWritesNothing("cancel_scheduled_message", "InvalidState")
       /\ \A r \in Slots, u \in Users, sid \in DOMAIN scheduled :
             (/\ req[r].op = "cancel"
              /\ Closes(r)
              /\ req[r].sid = sid
              /\ req[r].user = u)
             => /\ scheduled'[sid].status = "cancelled"
                /\ transactions' = BagAdd(transactions,
                      Transaction(u, scheduled[sid].cost, "sms_refund", sid))
                /\ CancelResponse(sid)' =
                      [refunded_amount |-> scheduled[sid].cost]
                /\ wallet[u] + scheduled[sid].cost = req[r].wallet_balance
                      => wallet'[u] = wallet[u] + scheduled[sid].cost
                /\ UNCHANGED <<messages, message_id_seq>>]_vars

SecondCancelRefused ==
    \E r \in Slots, u \in Users :
        /\ Rejected(r, "cancel_scheduled_message", u, "InvalidState")
        /\ Len(scheduled) = 1
        /\ scheduled[1].user_id = u
        /\ scheduled[1].status = "cancelled"
        /\ Refunds(1, scheduled[1].cost) = 1
        /\ wallet[u] = TOPUP
        /\ LedgerSum(u) = wallet[u]

(* C10: update_scheduled_message by the owner with valid fields is         *)
(* accepted only when the status it reads is pending; from any other       *)
(* status it is refused with InvalidState and the refused request leaves   *)
(* the scheduled messages (message, scheduled_time, sender_id) unchanged.  *)
UpdateOnlyPending ==
    [][/\ \A r \in Slots, u \in Users, sid \in DOMAIN scheduled,
             f \in UpdateInputs :
             (/\ Opens(r)
              /\ Owned(sid, u)
              /\ f.scheduled_time = NoDateTime \/ validate_time(f.scheduled_time)
              /\ UpdateBegin(r, u, sid, f.message, f.scheduled_time,
                             f.sender_id))
             => /\ UNCHANGED db
                /\ IF scheduled[sid].status = "pending"
                   THEN /\ req'[r].op = "update"
                        /\ req'[r].sid = sid
                   ELSE Rejected(r, "update_scheduled_message", u,
                                 "InvalidState")'
       /\ RefusalWritesNothing("update_scheduled_message", "InvalidState")]_vars

UpdateOfSentRefused ==
    \E r \in Slots, u \in Users :
        /\ Rejected(r, "update_scheduled_message", u, "InvalidState")
        /\ Len(scheduled) = 1
        /\ scheduled[1].user_id = u
        /\ scheduled[1].status = "sent"
        /\ scheduled[1].message = "hi"
        /\ scheduled[1].sender_id = None

(* A scan has begun processing scheduled message sid: it has moved it to   *)
(* processing in its session and called the gateway for it.                *)
Attempted(sid) == CopiesIn(sid, gateway) > 0

(* C11: a cancel or an update takes effect only while no scan has begun    *)
(* processing the message; once a scan has claimed the message the cancel  *)
(* or update fails, so no refund is issued for a message the scan sends or *)
(* refunds.                                                                *)
NoEffectAfterClaim ==
    [][\A r \in Slots :
          (req[r].op \in {"cancel", "update"} /\ Closes(r)
              /\ <<wallet, transactions, scheduled>>'
                     # <<wallet, transactions, scheduled>>)
          => ~Attempted(req[r].sid)]_vars

(* The distinct active contacts in the union of the selected groups that   *)
(* u owns.                                                                 *)
SelectedActive(u, group_ids) ==
    {c \in UNION {Members[g] : g \in {x \in group_ids \cap Groups :
                                         GroupOwner[x] = u}} : IsActive[c]}

(* C12: an accepted schedule_bulk_sms prepares exactly one scheduled       *)
(* message per distinct active contact of the selected groups the caller   *)
(* owns, and charges the cost once per such contact; it is refused for     *)
(* insufficient funds only when the balance is below that charge.          *)
BulkDedup ==
    [][\A r \in Slots :
          (/\ Opens(r)
           /\ \/ req'[r].op = "schedule"
              \/ req'[r].op = "rejected"
                    /\ req'[r].handler = "schedule_bulk_sms")
          => \A u \in {req'[r].user}, dt \in DateTimes, g \in GroupInputs :
                BulkScheduleBegin(r, u, g, dt, "hi", None)
                => LET expected == SelectedActive(u, g)
                       n == Cardinality(expected)
                   IN IF req'[r].op = "schedule"
                      THEN /\ Len(req'[r].new) = n
                           /\ \E o \in Orders(expected) :
                                 \A k \in 1 .. n :
                                    req'[r].new[k].recipient = PhoneNumber[o[k]]
                           /\ req'[r].tx.amount = -(n * SMS_COST)
                           /\ req'[r].wallet_balance = wallet[u] - n * SMS_COST
                      ELSE req'[r].error = "InsufficientFunds"
                              => wallet[u] < n * SMS_COST]_vars

SharedContactScheduledOnce ==
    \E r \in Slots :
        /\ req[r].op = "schedule"
        /\ req[r].user = "u1"
        /\ Cardinality(JoinRows("u1", {"g1", "g2"})) = 3
        /\ SelectedActive("u1", {"g1", "g2"}) = {"c1", "c2"}
        /\ Len(req[r].new) = 2
        /\ {req[r].new[k].recipient : k \in 1 .. 2}
              = {PhoneNumber["c1"], PhoneNumber["c2"]}
        /\ req[r].tx.amount = -(2 * SMS_COST)

(* C13: schedule_bulk_sms over n > 0 resolved contacts is refused with     *)
(* InsufficientFunds, writing nothing, when the balance is below n times   *)
(* the cost; otherwise its one commit adds a single sms_scheduled row of   *)
(* -n times the cost and exactly the n pending scheduled messages, each    *)
(* with the unit cost and the same scheduled time, and the balance written *)
(* is the one read less n times the cost.  No step adds only some of the   *)
(* rows or only the debit.                                                 *)
BulkAllOrNothing ==
    [][/\ \A r \in Slots :
             (/\ Opens(r)
              /\ req'[r].op = "rejected"
              /\ req'[r].handler = "schedule_bulk_sms")
             => \A u \in {req'[r].user}, dt \in DateTimes, g \in GroupInputs :
                   (/\ validate_time(dt)
                    /\ SelectedActive(u, g) # {}
                    /\ BulkScheduleBegin(r, u, g, dt, "hi", None))
                   => /\ wallet[u] < Cardinality(SelectedActive(u, g)) * SMS_COST
                      /\ req'[r].error = "InsufficientFunds"
                      /\ UNCHANGED db
       /\ RefusalWritesNothing("schedule_bulk_sms", "InsufficientFunds")
       /\ \A r \in Slots :
             (req[r].op = "schedule" /\ req'[r] # req[r])
             => LET n == Len(req[r].new)
                    u == req[r].user
                IN /\ req'[r] = Idle
                   /\ transactions' = BagAdd(transactions,
                         Transaction(u, -(n * SMS_COST), "sms_scheduled", NoId))
                   /\ Len(scheduled') = Len(scheduled) + n
                   /\ \A k \in 1 .. Len(scheduled) : scheduled'[k] = scheduled[k]
                   /\ \A k \in 1 .. n :
                         /\ scheduled'[Len(scheduled) + k] = req[r].new[k]
                         /\ req[r].new[k].status = "pending"
                         /\ req[r].new[k].cost = SMS_COST
                         /\ req[r].new[k].user_id = u
                         /\ req[r].new[k].scheduled_time
                               = req[r].new[1].scheduled_time
                   /\ wallet'[u] = req[r].wallet_balance
                   /\ wallet[u] = req[r].wallet_balance + n * SMS_COST
                         => wallet'[u] = wallet[u] - n * SMS_COST
       /\ (Len(scheduled') # Len(scheduled))
             => \E r \in Slots : req[r].op = "schedule" /\ Closes(r)]_vars

BulkOfTwoCommitted ==
    /\ Quiescent
    /\ Len(scheduled) = 2
    /\ \A k \in 1 .. 2 :
          /\ scheduled[k].user_id = "u1"
          /\ scheduled[k].status = "pending"
          /\ scheduled[k].cost = SMS_COST
          /\ scheduled[k].scheduled_time = scheduled[1].scheduled_time
    /\ scheduled[1].recipient # scheduled[2].recipient
    /\ CopiesIn(Transaction("u1", -(2 * SMS_COST), "sms_scheduled", NoId),
                transactions) = 1
    /\ wallet["u1"] = 2 * TOPUP - 2 * SMS_COST
    /\ LedgerSum("u1") = wallet["u1"]

(* C14: schedule_bulk_sms with a valid time fails with NoRecipients when   *)
(* no selected group is owned by the caller or the owned selected groups   *)
(* hold no active contact, and the refusal leaves the wallet, the          *)
(* transactions and the scheduled messages as they were.                   *)
BulkNoRecipients ==
    [][/\ \A r \in Slots :
             (/\ Opens(r)
              /\ \/ req'[r].op = "schedule"
                 \/ req'[r].op = "rejected" /\ req'[r].handler = "schedule_bulk_sms")
             => \A u \in {req'[r].user}, dt \in DateTimes, g \in GroupInputs :
                   (/\ validate_time(dt)
                    /\ SelectedActive(u, g) = {}
                    /\ BulkScheduleBegin(r, u, g, dt, "hi", None))
                   => /\ Rejected(r, "schedule_bulk_sms", u, "NoRecipients")'
                      /\ UNCHANGED db
       /\ RefusalWritesNothing("schedule_bulk_sms", "NoRecipients")]_vars

BulkRefusedNoRecipients ==
    \E r \in Slots :
       /\ Rejected(r, "schedule_bulk_sms", "u1", "NoRecipients")
       /\ wallet["u1"] >= SMS_COST
       /\ SelectedActive("u1", {"g3", "g4"}) = {}
       /\ Members["g4"] # {}
       /\ SelectedActive("u2", {"g1"}) = {}
       /\ scheduled = <<>>

Terminal == {"sent", "failed", "cancelled"}

(* C15: sent, failed and cancelled are terminal: no step changes the       *)
(* committed status of a scheduled message that is sent, failed or         *)
(* cancelled.                                                              *)
TerminalStatuses ==
    [][\A sid \in DOMAIN scheduled :
          scheduled[sid].status \in Terminal
          => scheduled'[sid].status = scheduled[sid].status]_vars

(* C16: the gateway is called at most once for any one scheduled message.  *)
AttemptedAtMostOnce ==
    \A sid \in DOMAIN scheduled : CopiesIn(sid, gateway) <= 1

(* C20: at most one execution of the scan body is in progress at any time. *)
AtMostOneScan ==
    Cardinality({r \in Slots : req[r].op = "scan"}) <= 1

(* The scheduled messages a scan on thread s has claimed and sent.         *)
ClaimedBy(s) ==
    IF req[s].op = "scan" THEN {req[s].ids[k] : k \in 1 .. req[s].i} ELSE {}

(* C17: the claim of a due message is durable before the gateway call: if  *)
(* the process stops after the claim and before the scan commits, the      *)
(* stored status of the message is processing, not pending.                *)
ClaimDurableBeforeSend ==
    [][Crash => \A s \in Slots : \A sid \in ClaimedBy(s) :
                   scheduled[sid].status = "pending"
                   => scheduled'[sid].status = "processing"]_vars

(* C18: when persisting the outcome of one item of a scan fails, the       *)
(* outcomes recorded for the items processed before it in the same scan    *)
(* are still committed.                                                    *)
PerItemIsolation ==
    [][\A s \in Slots :
          ScanItemFlushFails(s)
          => \A sid \in ClaimedBy(s) :
                scheduled[sid].status = "pending"
                => scheduled'[sid].status \in {"sent", "failed"}]_vars

PendingDue(sid) ==
    /\ sid \in DOMAIN scheduled
    /\ scheduled[sid].status = "pending"
    /\ scheduled[sid].scheduled_time <= now

(* C19: a scan that starts selects every scheduled message that is pending *)
(* with a scheduled time not after now, and, the scan being run again and  *)
(* again and the gateway call returning, every such message eventually     *)
(* is sent or failed, unless it is cancelled or moved to a later time.     *)
DueEventuallyProcessed ==
    /\ [][\A s \in Slots :
             (Opens(s) /\ req'[s].op = "scan")
             => {req'[s].ids[k] : k \in DOMAIN req'[s].ids}
                   = {sid \in DOMAIN scheduled : PendingDue(sid)}]_vars
    /\ \A sid \in 1 .. MaxOps :
          PendingDue(sid)
          ~> \/ sid \in DOMAIN scheduled
                   /\ scheduled[sid].status \in {"sent", "failed", "cancelled"}
             \/ sid \in DOMAIN scheduled
                   /\ scheduled[sid].scheduled_time > now

SentByTimerScan ==
    /\ Quiescent
    /\ ops = MaxOps
    /\ wallet["u1"] = 3 * TOPUP - SMS_COST
    /\ Len(scheduled) = 1
    /\ scheduled[1].status = "sent"
    /\ scheduled[1].scheduled_time <= now
    /\ CopiesIn(1, gateway) = 1

(* C21: when the gateway call of a scan raises or returns a non-success    *)
(* outcome for the recipient, the scan records the message as failed with  *)
(* an error message and a refund of its cost as an sms_refund row; it      *)
(* records a message as sent only when the gateway reported success.       *)
AdapterFailureRefunded ==
    [][\A s \in Slots : \A outcome \in {"nosuccess", "raise"} :
          (req[s].op = "scan" /\ ScanItem(s, outcome))
          => LET k == req'[s].i
                 sid == req[s].ids[k]
                 u == req[s].rows[k].user_id
                 c == req[s].rows[k].cost
             IN /\ req'[s].rows[k].status = "failed"
                /\ req'[s].rows[k].error_message # None
                /\ req'[s].tx = Append(req[s].tx,
                                  Transaction(u, c, "sms_refund", sid))]_vars

(* C22: in every committed state, whatever the interleaving of top-up,     *)
(* schedule, bulk schedule, immediate send, developer send, cancel and     *)
(* scan, the wallet balance of every user is at least 0.                   *)
WalletNonNegative == \A u \in Users : wallet[u] >= 0

RacingDebitsNonNegative ==
    /\ Quiescent
    /\ wallet["u1"] = TOPUP - SMS_COST
    /\ LedgerSum("u1") = TOPUP - 2 * SMS_COST
    /\ LedgerSum("u1") < 0

(* What a send request for the recipients recs of user u must open on      *)
(* thread r: a refusal that writes nothing when the balance is below the   *)
(* total cost, otherwise a session holding the debit of the total cost as  *)
(* one sms_send row and one pending message per recipient.                 *)
ReservedOrRefused(r, handler, u, recs) ==
    LET n == Cardinality(recs)
    IN IF wallet[u] < n * SMS_COST
       THEN /\ Rejected(r, handler, u, "InsufficientFunds")'
            /\ UNCHANGED db
       ELSE /\ req'[r].op = "send"
            /\ req'[r].user = u
            /\ req'[r].wallet_balance = wallet[u] - n * SMS_COST
            /\ req'[r].tx = Transaction(u, -(n * SMS_COST), "sms_send", NoId)
            /\ Len(req'[r].new) = n
            /\ {req'[r].new[k].recipient : k \in 1 .. n} = recs
            /\ \A k \in 1 .. n : /\ req'[r].new[k].status = "pending"
                                 /\ req'[r].new[k].cost = SMS_COST
                                 /\ req'[r].new[k].user_id = u
            /\ UNCHANGED db

(* C23: an immediate send for n recipients with a balance below n times    *)
(* the cost is refused with InsufficientFunds and writes nothing;          *)
(* otherwise one commit writes the balance less n times the cost, one      *)
(* sms_send row of that amount and exactly n pending Messages rows, and    *)
(* only then the rows are handed to the dispatch that calls the gateway.   *)
ImmediateSendReserves ==
    [][/\ \A r \in Slots :
             (/\ Opens(r)
              /\ \/ req'[r].op = "send"
                 \/ req'[r].op = "rejected"
                       /\ req'[r].handler \in {"send_sms", "send_bulk_sms"})
             => /\ \A u \in {req'[r].user}, rc \in RecipientLists \ {<<>>} :
                      SendBegin(r, u, rc, "hi", None)
                      => ReservedOrRefused(r, "send_sms", u,
                            {rc[k] : k \in DOMAIN rc})
                /\ \A u \in {req'[r].user}, g \in GroupInputs :
                      (SelectedActive(u, g) # {}
                          /\ SendBulkBegin(r, u, g, "hi", None))
                      => ReservedOrRefused(r, "send_bulk_sms", u,
                            {PhoneNumber[c] : c \in SelectedActive(u, g)})
       /\ RefusalWritesNothing("send_sms", "InsufficientFunds")
       /\ RefusalWritesNothing("send_bulk_sms", "InsufficientFunds")
       /\ \A r \in Slots :
             (req[r].op = "send" /\ req'[r] # req[r])
             => LET n == Len(req[r].new)
                    u == req[r].user
                    ids == DOMAIN messages' \ DOMAIN messages
                IN /\ transactions' = BagAdd(transactions,
                         Transaction(u, -(n * SMS_COST), "sms_send", NoId))
                   /\ wallet'[u] = req[r].wallet_balance
                   /\ wallet[u] = req[r].wallet_balance + n * SMS_COST
                         => wallet'[u] = wallet[u] - n * SMS_COST
                   /\ Cardinality(ids) = n
                   /\ \A id \in DOMAIN messages : messages'[id] = messages[id]
                   /\ \A id \in ids : /\ messages'[id].status = "pending"
                                      /\ messages'[id].cost = SMS_COST
                                      /\ messages'[id].user_id = u
                   /\ req'[r] = [op |-> "dispatch", message_ids |-> ids]
       /\ \A r \in Slots :
             (req[r].op # "dispatch" /\ req'[r].op = "dispatch")
             => req[r].op = "send"]_vars

SendOfTwoReserved ==
    \E r \in Slots :
       /\ req[r].op = "dispatch"
       /\ Cardinality(req[r].message_ids) = 2
       /\ \A id \in req[r].message_ids :
             messages[id].status = "pending" /\ messages[id].user_id = "u1"
       /\ wallet["u1"] = 2 * TOPUP - 2 * SMS_COST
       /\ CopiesIn(Transaction("u1", -(2 * SMS_COST), "sms_send", NoId),
                   transactions) = 1

(* The outcomes of a gateway call that are failures: the call raised, or   *)
(* the response reports a status other than Success for the recipient.     *)
GatewayFailures == (DispatchOutcomes \ {"Success", "norecipients"})

(* C24: in the dispatch of an immediate send a gateway failure for a       *)
(* message leaves that message with status failed, is not refunded (the    *)
(* wallets and the transactions are unchanged) and does not keep the other *)
(* messages of the request from getting the status of their own outcome.   *)
ImmediateSendFailureDegrades ==
    [][\A r \in Slots :
          req[r].op = "dispatch"
          => \A outcomes \in [req[r].message_ids -> DispatchOutcomes] :
                DispatchWith(r, outcomes)
                => /\ \A id \in req[r].message_ids :
                         IF outcomes[id] \in GatewayFailures
                         THEN messages'[id].status = "failed"
                         ELSE messages'[id].status # "pending"
                   /\ UNCHANGED <<wallet, transactions>>
                   /\ req'[r] = Idle]_vars

MessageStatuses == {"pending", "sent", "delivered", "failed"}

(* C25: the status of every Messages row is one of pending, sent,          *)
(* delivered and failed.                                                   *)
MessageStatusInEnum ==
    \A id \in DOMAIN messages : messages[id].status \in MessageStatuses

(* Contact c may be a recipient of a bulk request of u over group_ids: it  *)
(* is active and a member of a selected group that u owns.                 *)
Eligible(c, u, group_ids) ==
    /\ IsActive[c]
    /\ \E g \in group_ids \cap Groups : GroupOwner[g] = u /\ c \in Members[g]

(* The rows of a session opened by a bulk request of u over group_ids are  *)
(* one per eligible contact and no other, and the debit is for them only.  *)
ResolvedOnly(session, u, group_ids) ==
    LET n == Cardinality({c \in Contacts : Eligible(c, u, group_ids)})
    IN /\ \A k \in DOMAIN session.new :
             \E c \in Contacts : /\ Eligible(c, u, group_ids)
                                 /\ session.new[k].recipient = PhoneNumber[c]
       /\ \A c \in Contacts :
             Eligible(c, u, group_ids)
             => \E k \in DOMAIN session.new :
                   session.new[k].recipient = PhoneNumber[c]
       /\ Len(session.new) = n
       /\ session.tx.amount = -(n * SMS_COST)
       /\ session.tx.user_id = u

(* C26: the recipients of a bulk schedule and of a bulk send are the       *)
(* active contacts of the selected groups the caller owns: a group of      *)
(* another user adds no recipient and no charge, and an inactive contact   *)
(* is never a recipient.                                                   *)
ResolutionOwnedActive ==
    [][\A r \in Slots :
          (Opens(r) /\ req'[r].op \in {"schedule", "send"})
          => \A u \in {req'[r].user}, g \in GroupInputs :
                /\ (\E dt \in DateTimes : BulkScheduleBegin(r, u, g, dt, "hi", None))
                      => ResolvedOnly(req'[r], u, g)
                /\ SendBulkBegin(r, u, g, "hi", None)
                      => ResolvedOnly(req'[r], u, g)]_vars

ForeignGroupAndInactiveLeftOut ==
    /\ GroupOwner["g3"] = "u2"
    /\ ~IsActive["c3"]
    /\ ~Eligible("c4", "u1", {"g2", "g3"})
    /\ \E r \in Slots :
          /\ req[r].op = "send"
          /\ req[r].user = "u1"
          /\ Len(req[r].new) = 1
          /\ req[r].new[1].recipient = PhoneNumber["c2"]
          /\ req[r].tx.amount = -SMS_COST
    /\ \E r \in Slots :
          /\ req[r].op = "schedule"
          /\ req[r].user = "u2"
          /\ Len(req[r].new) = 1
          /\ req[r].new[1].recipient = PhoneNumber["c4"]

(* C27: a read, an update or a cancel of a scheduled message that exists   *)
(* and belongs to another user is refused exactly as the same request for  *)
(* an id that does not exist is (NotFound when the request is otherwise    *)
(* valid), and changes no scheduled message, wallet or transaction.        *)
OwnershipHidden ==
    [][/\ \A r \in Slots :
             (Opens(r) /\ req'[r].op \in {"rejected", "read", "cancel", "update"})
             => \A u \in {req'[r].user}, sid \in 1 .. Len(scheduled) :
                   scheduled[sid].user_id # u
                   => LET none == Len(scheduled) + 1
                      IN /\ GetBegin(r, u, sid)
                               => /\ Rejected(r, "get_scheduled_message", u,
                                              "NotFound")'
                                  /\ GetBegin(r, u, none)
                                  /\ UNCHANGED db
                         /\ CancelBegin(r, u, sid)
                               => /\ Rejected(r, "cancel_scheduled_message", u,
                                              "NotFound")'
                                  /\ CancelBegin(r, u, none)
                                  /\ UNCHANGED db
                         /\ \A f \in UpdateInputs :
                               UpdateBegin(r, u, sid, f.message,
                                           f.scheduled_time, f.sender_id)
                               => /\ req'[r].op = "rejected"
                                  /\ req'[r].handler = "update_scheduled_message"
                                  /\ (f.scheduled_time = NoDateTime
                                         \/ validate_time(f.scheduled_time))
                                        => req'[r].error = "NotFound"
                                  /\ UpdateBegin(r, u, none, f.message,
                                                 f.scheduled_time, f.sender_id)
                                  /\ UNCHANGED db
       /\ RefusalWritesNothing("get_scheduled_message", "NotFound")
       /\ RefusalWritesNothing("cancel_scheduled_message", "NotFound")
       /\ RefusalWritesNothing("update_scheduled_message", "NotFound")]_vars

ForeignReadRefused ==
    /\ Len(scheduled) = 1
    /\ scheduled[1].user_id = "u1"
    /\ scheduled[1].status = "pending"
    /\ req["r1"] = [op |-> "read", user |-> "u1", row |-> scheduled[1]]
    /\ Rejected("r2", "get_scheduled_message", "u2", "NotFound")

(* C28: the transaction log is append-only: no step removes or changes a   *)
(* committed Transactions row (every row is still there after the step,    *)
(* with its user, amount and type, as many times as before), and a step    *)
(* that changes the log adds rows to it.                                   *)
LedgerAppendOnly ==
    [][/\ \A t \in BagToSet(transactions) :
             CopiesIn(t, transactions') >= CopiesIn(t, transactions)
       /\ BagCardinality(transactions') >= BagCardinality(transactions)]_vars

LedgerKeepsReservationAfterCancel ==
    /\ Quiescent
    /\ Len(scheduled) = 1
    /\ scheduled[1].status = "cancelled"
    /\ CopiesIn(Transaction("u1", TOPUP, "topup", NoId), transactions) = 1
    /\ CopiesIn(Transaction("u1", -SMS_COST, "sms_scheduled", NoId),
                transactions) = 1
    /\ CopiesIn(Transaction("u1", SMS_COST, "sms_refund", 1), transactions) = 1
    /\ BagCardinality(transactions) = 3

(* C29: an update that carries a scheduled time not strictly after the     *)
(* current time (a naive time read in EAT) is refused with a validation    *)
(* error and leaves the scheduled messages unchanged; an accepted update   *)
(* that sets the time sets it to an instant after the current time.        *)
UpdateTimeValidated ==
    [][/\ \A r \in Slots :
             (Opens(r) /\ req'[r].op \in {"rejected", "update"})
             => \A u \in {req'[r].user}, sid \in 1 .. Len(scheduled) + 1,
                   f \in UpdateInputs :
                   (/\ f.scheduled_time # NoDateTime
                    /\ UpdateBegin(r, u, sid, f.message, f.scheduled_time,
                                   f.sender_id))
                   => /\ UNCHANGED db
                      /\ IF NotAfterNow(f.scheduled_time)
                         THEN Rejected(r, "update_scheduled_message", u,
                                       "ValidationError")'
                         ELSE req'[r].op = "update"
                              => /\ req'[r].scheduled_time > now
                                 /\ req'[r].scheduled_time =
                                       (IF f.scheduled_time.tz = "naive"
                                        THEN f.scheduled_time.wall - EAT_OFFSET
                                        ELSE f.scheduled_time.wall)
       /\ RefusalWritesNothing("update_scheduled_message", "ValidationError")
       /\ \A r \in Slots :
             (req[r].op = "update" /\ Closes(r))
             => \A sid \in DOMAIN scheduled :
                   scheduled'[sid].scheduled_time # scheduled[sid].scheduled_time
                   => /\ sid = req[r].sid
                      /\ scheduled'[sid].scheduled_time = req[r].scheduled_time]_vars

UpdateToPastRefused ==
    \E r \in Slots, u \in Users :
        /\ Rejected(r, "update_scheduled_message", u, "ValidationError")
        /\ Len(scheduled) = 1
        /\ scheduled[1].user_id = u
        /\ scheduled[1].status = "pending"
        /\ scheduled[1].scheduled_time > now

(* C30: every stored scheduled message has a non-empty body of at most 160 *)
(* characters, and a schedule, bulk schedule or update request that        *)
(* carries an empty body, or a schedule or bulk schedule request that      *)
(* carries an oversized one, is refused before anything is written.        *)
BodyValidatedFirst ==
    [][/\ \A sid \in DOMAIN scheduled' :
             /\ scheduled'[sid].message # ""
             /\ Len(scheduled'[sid].message) <= MAX_MESSAGE
       /\ \A r \in Slots :
             (Opens(r) /\ req'[r].op \in {"rejected", "schedule", "update"})
             => \A u \in {req'[r].user}, body \in {"", LongBody} :
                   /\ \A dt \in DateTimes :
                         ScheduleBodyBegin(r, u, dt, body, None, "+254700000001")
                         => /\ Rejected(r, "schedule_sms", u, "ValidationError")'
                            /\ UNCHANGED db
                   /\ \A dt \in DateTimes, g \in GroupInputs :
                         BulkScheduleBodyBegin(r, u, g, dt, body, None)
                         => /\ Rejected(r, "schedule_bulk_sms", u,
                                        "ValidationError")'
                            /\ UNCHANGED db
                   /\ \A sid \in 1 .. Len(scheduled) + 1 :
                         (body = "" /\ UpdateBegin(r, u, sid, body, NoDateTime, "LUCO"))
                         => /\ req'[r].op = "rejected"
                            /\ UNCHANGED db
       /\ RefusalWritesNothing("schedule_sms", "ValidationError")
       /\ RefusalWritesNothing("schedule_bulk_sms", "ValidationError")
       /\ RefusalWritesNothing("update_scheduled_message", "ValidationError")]_vars

(* C31: a gateway call that raises for one due item is recovered inside    *)
(* the loop: the item is recorded failed and the scan goes on to the next  *)
(* item; the commit of a scan over k due items leaves every one of the k   *)
(* items sent or failed, none pending or processing; and when an exception *)
(* leaves the scan body of the interval job, the job's session is closed   *)
(* and no run of the job is left in progress, so the next run can start.   *)
GatewayFailureRecovered ==
    [][\A s \in Slots :
          /\ (req[s].op = "scan" /\ req'[s] # req[s]
                 /\ req[s].i < Len(req[s].ids)
                 /\ CopiesIn(req[s].ids[req[s].i + 1], gateway')
                       > CopiesIn(req[s].ids[req[s].i + 1], gateway)
                 /\ ~ScanItemFlushFails(s))
             => /\ req'[s].op = "scan"
                /\ req'[s].i = req[s].i + 1
                /\ req'[s].rows[req'[s].i].status \in {"sent", "failed"}
                /\ ScanItem(s, "raise")
                      => req'[s].rows[req'[s].i].status = "failed"
          /\ ScanCommit(s)
             => \A k \in DOMAIN req[s].ids :
                   /\ req[s].rows[k].status \in {"sent", "failed"}
                   /\ scheduled'[req[s].ids[k]].status = req[s].rows[k].status
          /\ ((ScanItemFlushFails(s) \/ ScanCommitFails(s))
                 /\ req[s].by = "job")
             => /\ req'[s] = Idle
                /\ \A q \in Slots :
                      ~(req'[q].op = "scan" /\ req'[q].by = "job")]_vars

(* A scan over two due items, one gateway call raised: both are settled.   *)
ScanOfTwoOneRaised ==
    /\ Quiescent
    /\ Len(scheduled) = 2
    /\ {scheduled[1].status, scheduled[2].status} = {"sent", "failed"}
    /\ scheduled[1].last_attempt_at = scheduled[2].last_attempt_at
    /\ \A sid \in 1 .. 2 : CopiesIn(sid, gateway) = 1

(* The scheduled messages the scan on thread s selected.                   *)
Selected(s) == {req[s].ids[k] : k \in DOMAIN req[s].ids}

(* The rows of u in table transactions are the same before and after.      *)
SameTransactions(u) ==
    \A t \in BagToSet(transactions) \cup BagToSet(transactions') :
        t.user_id = u => CopiesIn(t, transactions') = CopiesIn(t, transactions)

(* C32: a scan selects exactly the scheduled messages that are pending     *)
(* with a scheduled time not after now, and no step of the scan changes    *)
(* anything else: a scheduled message it did not select, pending and not   *)
(* yet due or in any other status, keeps all its fields, no row is added,  *)
(* and the wallet and the transactions of a user who owns none of the      *)
(* selected messages stay as they were.                                    *)
ScanTouchesOnlyDue ==
    [][\A s \in Slots :
          /\ (Opens(s) /\ req'[s].op = "scan")
             => /\ {req'[s].ids[k] : k \in DOMAIN req'[s].ids}
                      = {sid \in DOMAIN scheduled :
                            /\ scheduled[sid].status = "pending"
                            /\ scheduled[sid].scheduled_time <= now}
                /\ \A k \in DOMAIN req'[s].ids :
                      req'[s].rows[k] = scheduled[req'[s].ids[k]]
                /\ UNCHANGED db
          /\ (req[s].op = "scan" /\ req'[s] # req[s])
             => /\ Len(scheduled') = Len(scheduled)
                /\ \A sid \in DOMAIN scheduled :
                      sid \notin Selected(s) => scheduled'[sid] = scheduled[sid]
                /\ \A u \in Users :
                      (\A sid \in Selected(s) : scheduled[sid].user_id # u)
                      => (wallet'[u] = wallet[u] /\ SameTransactions(u))]_vars

(* A scan has settled the due message of one user while the message of     *)
(* another user, pending and due an hour later, is as it was scheduled.    *)
ScanLeftLaterMessage ==
    /\ Quiescent
    /\ now = MaxTime
    /\ Len(scheduled) = 2
    /\ \E a, b \in 1 .. 2 :
          /\ scheduled[a].status \in {"sent", "failed"}
          /\ scheduled[a].scheduled_time = MaxTime
          /\ scheduled[b].status = "pending"
          /\ scheduled[b].scheduled_time = MaxTime + 1
          /\ scheduled[b].attempts = 0
          /\ scheduled[b].user_id # scheduled[a].user_id
          /\ wallet[scheduled[b].user_id] = TOPUP - SMS_COST
          /\ CopiesIn(b, gateway) = 0

(* C33: within one scan the due messages are processed in ascending order  *)
(* of their scheduled time: when the scan calls the gateway for a message, *)
(* no message it has still to process has an earlier scheduled time.       *)
EarliestDueFirst ==
    [][\A s \in Slots :
          (req[s].op = "scan" /\ req'[s].op = "scan"
              /\ req'[s].i = req[s].i + 1)
          => \A j \in req'[s].i + 1 .. Len(req[s].ids) :
                req[s].rows[j].scheduled_time
                   >= req[s].rows[req'[s].i].scheduled_time]_vars

(* C34: the scan refunds a message only if its gateway call raised: when   *)
(* the gateway call returns, the message is recorded sent with no refund,  *)
(* the commit of the scan leaves it sent with no new sms_refund row, and   *)
(* when the flush of the Messages row raises after the gateway call has    *)
(* returned, the message still ends sent and gets no sms_refund row.       *)
RefundOnlyOnGatewayFailure ==
    [][\A s \in Slots :
          /\ (req[s].op = "scan"
                 /\ (ScanItem(s, "ok") \/ ScanItem(s, "nosuccess")))
             => /\ req'[s].rows[req'[s].i].status = "sent"
                /\ req'[s].tx = req[s].tx
                /\ req'[s].wallet_balance = req[s].wallet_balance
          /\ ScanCommit(s)
             => \A k \in Recorded(s, "sent") :
                   LET sid == req[s].ids[k]
                   IN /\ scheduled'[sid].status = "sent"
                      /\ RefundsIn(transactions', scheduled[sid].user_id,
                                   sid, scheduled[sid].cost)
                            = Refunds(sid, scheduled[sid].cost)
          /\ ScanItemFlushFails(s)
             => LET sid == req[s].ids[req[s].i + 1]
                IN /\ scheduled'[sid].status = "sent"
                   /\ RefundsIn(transactions', scheduled[sid].user_id,
                                sid, scheduled[sid].cost)
                         = Refunds(sid, scheduled[sid].cost)]_vars

(* C35: in every committed state a scheduled message has a sent_message_id *)
(* if and only if its status is sent; the message row it links to has      *)
(* status sent and the same user, recipient, body and cost; and a          *)
(* scheduled message that is pending, cancelled or failed has no linked    *)
(* message row and no processed_at.                                        *)
SentLinkConsistent ==
    \A sid \in DOMAIN scheduled :
        LET row == scheduled[sid]
            mid == row.sent_message_id
        IN /\ (mid # NoId) <=> (row.status = "sent")
           /\ row.status = "sent"
                 => /\ mid \in DOMAIN messages
                    /\ messages[mid].status = "sent"
                    /\ messages[mid].user_id = row.user_id
                    /\ messages[mid].recipient = row.recipient
                    /\ messages[mid].message = row.message
                    /\ messages[mid].cost = row.cost
           /\ row.status \in {"pending", "cancelled", "failed"}
                 => row.processed_at = NoTime

(* C36: once no request or scan is in flight, the attempts counter of      *)
(* every scheduled message equals the number of gateway calls made for it: *)
(* 0 while it is pending and exactly 1 once it is sent or failed, also     *)
(* when two scans overlapped on it.                                        *)
AttemptsCountGatewayCalls ==
    Quiescent =>
        \A sid \in DOMAIN scheduled :
            /\ scheduled[sid].attempts = CopiesIn(sid, gateway)
            /\ scheduled[sid].status = "pending" => scheduled[sid].attempts = 0
            /\ scheduled[sid].status \in {"sent", "failed"}
                  => scheduled[sid].attempts = 1

(* The total cost of the scheduled messages in S.                          *)
RECURSIVE SumCost(_)
SumCost(S) ==
    IF S = {} THEN 0
    ELSE LET sid == CHOOSE x \in S : TRUE
         IN scheduled[sid].cost + SumCost(S \ {sid})

(* The money u has reserved: minus the sum of u's sms_scheduled and        *)
(* sms_refund rows.                                                        *)
Reserved(u) ==
    -SumAmounts(transactions,
                {t \in BagToSet(transactions) :
                    /\ t.user_id = u
                    /\ t.transaction_type \in {"sms_scheduled", "sms_refund"}})

(* C37: in every committed state, for every user, the sum of the user's    *)
(* sms_scheduled and sms_refund rows equals minus the total cost of the    *)
(* user's scheduled messages that are pending, processing or sent.         *)
ReservationConserved ==
    \A u \in Users :
        Reserved(u) = SumCost({sid \in DOMAIN scheduled :
                                  /\ scheduled[sid].user_id = u
                                  /\ scheduled[sid].status
                                        \in {"pending", "processing", "sent"}})

(* The users a session acts for: the caller of a request, the owner of the *)
(* message rows a background send was given, the owners of the scheduled   *)
(* messages a scan selected.                                               *)
ActsFor(session) ==
    IF session.op = "scan"
    THEN {session.rows[k].user_id : k \in DOMAIN session.rows}
    ELSE IF session.op = "dispatch"
    THEN {messages[id].user_id : id \in session.message_ids}
    ELSE {session.user} \cap Users

(* The step leaves everything user v has in the database as it was.        *)
Untouched(v) ==
    /\ wallet'[v] = wallet[v]
    /\ SameTransactions(v)
    /\ \A id \in DOMAIN messages' :
          messages'[id].user_id = v
          => (id \in DOMAIN messages /\ messages'[id] = messages[id])
    /\ \A id \in DOMAIN messages :
          messages[id].user_id = v => id \in DOMAIN messages'
    /\ \A sid \in DOMAIN scheduled' :
          scheduled'[sid].user_id = v
          => (sid \in DOMAIN scheduled /\ scheduled'[sid] = scheduled[sid])
    /\ \A sid \in DOMAIN scheduled :
          scheduled[sid].user_id = v => sid \in DOMAIN scheduled'

(* C38: a step of a request made by user A, or of a background send or a   *)
(* scan working on A's rows, leaves the wallet, the transactions, the      *)
(* messages and the scheduled messages of every other user as they were;   *)
(* and every sms_refund a scan commits is a row of the user who owns the   *)
(* scheduled message, whose wallet is the only one the scan writes.        *)
CrossUserIsolation ==
    [][\A r \in Slots :
          /\ req'[r] # req[r]
             => \A v \in Users \ ActsFor(IF req[r] = Idle THEN req'[r]
                                         ELSE req[r]) : Untouched(v)
          /\ (req[r].op = "scan" /\ Closes(r))
             => /\ \A k \in DOMAIN req[r].tx :
                      /\ req[r].tx[k].transaction_type = "sms_refund"
                      /\ req[r].tx[k].user_id
                            = scheduled[req[r].tx[k].ref].user_id
                      /\ CopiesIn(req[r].tx[k], transactions')
                            > CopiesIn(req[r].tx[k], transactions)
                /\ \A u \in Users :
                      wallet'[u] # wallet[u]
                      => \E k \in Recorded(r, "failed") :
                            req[r].rows[k].user_id = u]_vars

(* A scan has refunded the failed message of one user; the other user,     *)
(* who had topped up, has the wallet and the single row of that top-up.    *)
RefundWentToOwner ==
    /\ Quiescent
    /\ Len(scheduled) = 1
    /\ scheduled[1].status = "failed"
    /\ \E a, b \in Users :
          /\ a # b
          /\ scheduled[1].user_id = a
          /\ Refunds(1, SMS_COST) = 1
          /\ wallet[a] = TOPUP
          /\ wallet[b] = TOPUP
          /\ LedgerSum(b) = TOPUP
          /\ CopiesIn(Transaction(b, TOPUP, "topup", NoId), transactions) = 1

(* The message rows the step adds.                                         *)
AddedMessages == DOMAIN messages' \ DOMAIN messages

(* C39: client_send_sms with a missing, unknown or deactivated key is      *)
(* refused with Unauthorized; with an active key and n >= 1 recipients it  *)
(* is refused with InsufficientFunds when the balance is below n times the *)
(* cost of one SMS; a refusal writes nothing.  When the gateway raises,    *)
(* returns no response data or reports no recipient with status Success,   *)
(* the request ends with the wallets, the transactions and the messages    *)
(* unchanged.  Otherwise one commit writes the balance the handler read    *)
(* less n times the cost (the committed balance less n times the cost when *)
(* no other request wrote the wallet in between), one sms_deduction row of *)
(* that amount and n message rows with status sent, one per recipient.     *)
DevSendAtomic ==
    [][\A r \in Slots :
          /\ \A key \in KeyInputs, rc \in RecipientLists :
                (Opens(r) /\ DevSendBegin(r, key, rc, "hi"))
                => /\ UNCHANGED db
                   /\ IF key \notin ApiKeys \/ ~KeyActive[key]
                      THEN /\ req'[r].op = "rejected"
                           /\ req'[r].error = "Unauthorized"
                      ELSE IF rc = <<>>
                      THEN req'[r].op = "rejected"
                      ELSE IF wallet[KeyUser[key]] < SMS_COST * Len(rc)
                      THEN Rejected(r, "client_send_sms", KeyUser[key],
                                    "InsufficientFunds")'
                      ELSE /\ req'[r].op = "devsend"
                           /\ req'[r].user = KeyUser[key]
                           /\ req'[r].recipients = rc
          /\ RefusalWritesNothing("client_send_sms", "Unauthorized")
          /\ RefusalWritesNothing("client_send_sms", "InsufficientFunds")
          /\ \A outcome \in DevGatewayOutcomes :
                (req[r].op = "devsend" /\ DevSendFinish(r, outcome))
                => LET u == req[r].user
                       n == Len(req[r].recipients)
                   IN /\ req'[r] = Idle
                      /\ UNCHANGED scheduled
                      /\ IF outcome # "Success"
                         THEN UNCHANGED <<wallet, transactions, messages>>
                         ELSE /\ wallet'[u] = req[r].wallet_balance - n * SMS_COST
                              /\ wallet[u] = req[r].wallet_balance
                                    => wallet'[u] = wallet[u] - n * SMS_COST
                              /\ \A v \in Users \ {u} : wallet'[v] = wallet[v]
                              /\ transactions' = BagAdd(transactions,
                                    Transaction(u, -(n * SMS_COST),
                                                "sms_deduction", NoId))
                              /\ Cardinality(AddedMessages) = n
                              /\ \A id \in DOMAIN messages :
                                    messages'[id] = messages[id]
                              /\ \A id \in AddedMessages :
                                    /\ messages'[id].status = "sent"
                                    /\ messages'[id].user_id = u
                                    /\ messages'[id].cost = SMS_COST
                              /\ \A k \in 1 .. n :
                                    \E id \in AddedMessages :
                                       messages'[id].recipient
                                          = req[r].recipients[k]]_vars

(* A developer send to two recipients has committed: two message rows with *)
(* status sent, one sms_deduction row of twice the cost, the balance less  *)
(* twice the cost.                                                         *)
DevSendOfTwoCommitted ==
    /\ Quiescent
    /\ ops = 3
    /\ wallet["u1"] = 2 * TOPUP - 2 * SMS_COST
    /\ CopiesIn(Transaction("u1", -(2 * SMS_COST), "sms_deduction", NoId),
                transactions) = 1
    /\ LedgerSum("u1") = wallet["u1"]
    /\ DOMAIN messages = {1, 2}
    /\ \A id \in {1, 2} : messages[id].status = "sent"
    /\ messages[1].recipient # messages[2].recipient
====
